---------------------------- MODULE Spec2Model ----------------------------
(***************************************************************************)
(* Model of lib/VM/JSLib/GlobalObject.cpp of the Hermes VM:                *)
(*   - initGlobalObject, the bootstrap of the global object and of the     *)
(*     built-in prototype graph, as a straight-line program of steps;      *)
(*   - parseInt and parseFloat, the two numeric string parsers.            *)
(*   - throwTypeError and the property calls a program makes on the       *)
(*     global object once the bootstrap has returned.                      *)
(* Strings are sequences of UTF-16 code units (naturals).                  *)
(***************************************************************************)
EXTENDS Integers, Sequences, FiniteSets, TLC

VARIABLES
  \* ---- initGlobalObject ----
  pc,            \* index of the next statement of initGlobalObject to run
  slots,         \* runtime->xxx fields: slot name -> object id / Unassigned
  heap,          \* allocated objects: id -> [kind, parent, length]
  globalProps,   \* own properties of runtime->getGlobal()
  ctorProto,     \* constructor name -> prototype identity it captured
  handles,       \* local handles living in gcScope: name -> object id
  aborted,       \* the runtime died on an allocation failure
  hasES6Symbol,  \* runtime->hasES6Symbol()
  \* ---- parseInt ----
  pi_pc, pi_str, pi_arg1, pi_radix, pi_stripPrefix, pi_begin, pi_sign,
  pi_realEnd, pi_result,
  \* ---- parseFloat ----
  pf_pc, pf_str, pf_begin, pf_str8, pf_i, pf_len, pf_endPtr, pf_result,
  \* ---- native calls ----
  arg0Throws,    \* toString(arg0) of the parser call raises an exception
  callResult     \* outcome of the last native call made after the bootstrap

bootVars == <<pc, slots, heap, globalProps, ctorProto, handles, aborted,
              hasES6Symbol>>
piVars == <<pi_pc, pi_str, pi_arg1, pi_radix, pi_stripPrefix, pi_begin,
            pi_sign, pi_realEnd, pi_result>>
pfVars == <<pf_pc, pf_str, pf_begin, pf_str8, pf_i, pf_len, pf_endPtr,
            pf_result>>
parserVars == <<piVars, pfVars>>
callVars == <<arg0Throws, callResult>>
vars == <<bootVars, parserVars, callVars>>

(***************************************************************************)
(* Bounds of the model.                                                    *)
(***************************************************************************)
\* How many entries of NativeErrorTypes.def / TypedArrays.def are expanded.
MaxNativeErrors == 2
MaxTypedArrays == 2
\* Longest free-form tail of a parseInt input and of a parseFloat input.
MaxTail == 2
MaxFloatTail == 4
\* Most arguments passed in a call of the ThrowTypeError function.
MaxArgs == 2

(***************************************************************************)
(* Values.                                                                 *)
(***************************************************************************)
\* The null handle, runtime->makeNullHandle<JSObject>().
NullObj == 0
\* A runtime slot no statement has written yet.
Unassigned == -1
\* Non-object HermesValues.
NaNValue == -2
InfinityValue == -3
UndefinedValue == -4

SeqToSet(s) == {s[i] : i \in DOMAIN s}

\* No native call has been made yet.
NoCall ==
  [call |-> "", target |-> "", status |-> "", value |-> "", error |-> "",
   message |-> ""]


(***************************************************************************)
(* Property attribute descriptors (DefinePropertyFlags) and properties.    *)
(***************************************************************************)
\* DefinePropertyFlags{}: every bit cleared.
emptyDPF ==
  [setEnumerable |-> 0, setWritable |-> 0, setConfigurable |-> 0,
   setValue |-> 0, enumerable |-> 0, writable |-> 0, configurable |-> 0]

\* Variant: the constants are left configurable.
constantDPFConfigurable ==
  [emptyDPF EXCEPT !.setEnumerable = 1, !.setWritable = 1,
                   !.setConfigurable = 1, !.setValue = 1,
                   !.enumerable = 0, !.writable = 0, !.configurable = 1]

\* Not enumerable, not writable, not configurable.
constantDPF ==
  [emptyDPF EXCEPT !.setEnumerable = 1, !.setWritable = 1,
                   !.setConfigurable = 1, !.setValue = 1,
                   !.enumerable = 0, !.writable = 0, !.configurable = 0]

\* Variant: the property is left enumerable.
normalDPFEnumerable ==
  [emptyDPF EXCEPT !.setEnumerable = 1, !.setWritable = 1,
                   !.setConfigurable = 1, !.setValue = 1,
                   !.enumerable = 1, !.writable = 1, !.configurable = 1]

\* Not enumerable, but writable and configurable.
normalDPF ==
  [emptyDPF EXCEPT !.setEnumerable = 1, !.setWritable = 1,
                   !.setConfigurable = 1, !.setValue = 1,
                   !.enumerable = 0, !.writable = 1, !.configurable = 1]

\* Variant: the descriptor also asks for the value to be stored.
clearConfigurableDPFSetValue ==
  [emptyDPF EXCEPT !.setConfigurable = 1, !.configurable = 0, !.setValue = 1]

\* Clear the configurable flag.
clearConfigurableDPF ==
  [emptyDPF EXCEPT !.setConfigurable = 1, !.configurable = 0]

DPFOf(tag) ==
  CASE tag = "constant" -> constantDPF
    [] tag = "normal" -> normalDPF
    [] OTHER -> clearConfigurableDPF

\* An absent property.
NoProp ==
  [present |-> FALSE, value |-> UndefinedValue, enumerable |-> FALSE,
   writable |-> FALSE, configurable |-> FALSE]

\* The 'length' own property NativeFunction::create gives a new function.
FunctionLength(paramCount) ==
  [present |-> TRUE, value |-> paramCount, enumerable |-> FALSE,
   writable |-> FALSE, configurable |-> TRUE]

\* The property as dpf asks for it, starting from cur.
ApplyDPF(cur, dpf, val) ==
  [present |-> TRUE,
   value |-> IF dpf.setValue = 1 THEN val ELSE cur.value,
   enumerable |-> IF dpf.setEnumerable = 1 THEN dpf.enumerable = 1
                  ELSE cur.enumerable,
   writable |-> IF dpf.setWritable = 1 THEN dpf.writable = 1
                ELSE cur.writable,
   configurable |-> IF dpf.setConfigurable = 1 THEN dpf.configurable = 1
                    ELSE cur.configurable]

\* JSObject::defineOwnProperty on one property: the property afterwards.
\* A non-configurable property rejects every change but the ones
\* ES5.1 8.12.9 allows.
DefineOwnProperty(cur, dpf, val) ==
  LET new == ApplyDPF(cur, dpf, val) IN
  IF ~cur.present \/ cur.configurable THEN new
  ELSE IF new.configurable \/ new.enumerable # cur.enumerable THEN cur
  ELSE IF ~cur.writable /\ (new.writable \/ new.value # cur.value) THEN cur
  ELSE new

(***************************************************************************)
(* The statements of initGlobalObject, in source order.                    *)
(***************************************************************************)
\* Expansions of NATIVE_ERROR_TYPE and TYPED_ARRAY.
NativeErrorTypes ==
  <<"EvalError", "RangeError", "ReferenceError", "SyntaxError", "TypeError",
    "URIError">>
TypedArrays ==
  <<"Int8", "Int16", "Int32", "Uint8", "Uint8Clamped", "Uint16", "Uint32",
    "Float32", "Float64">>
ErrorNames == SubSeq(NativeErrorTypes, 1, MaxNativeErrors)
ArrayNames == SubSeq(TypedArrays, 1, MaxTypedArrays)

\* JSObject::create(runtime) with no parent argument chains the object to
\* the standard Object.prototype.
DefaultParent == "objectPrototype"
\* createSetIteratorPrototype / createMapIteratorPrototype chain to
\* %IteratorPrototype%.
CollectionIteratorParent == "iteratorPrototype"
\* NativeFunction::createWithoutPrototype chains to Function.prototype.
NativeFunctionParent == "functionPrototype"

Stmt ==
  [op |-> "", slot |-> "", alias |-> "", parent |-> "", name |-> "",
   reads |-> {}, local |-> "", uses |-> {}, clears |-> FALSE, dpf |-> "",
   value |-> 0, kind |-> "", ctx |-> "", cond |-> FALSE, undef |-> {}]

ConstStmt(name, value) ==
  [Stmt EXCEPT !.op = "defineConstant", !.name = name, !.value = value,
               !.dpf = "constant"]

\* Variant: every declared object is chained to Object.prototype.
DeclareStmtUnderObject(slot, parent, kind) ==
  [Stmt EXCEPT !.op = "declare", !.slot = slot,
               !.parent = IF parent = "null" THEN parent
                          ELSE "objectPrototype",
               !.kind = kind,
               !.reads = IF parent = "null" THEN {} ELSE {"objectPrototype"}]

DeclareStmt(slot, parent, kind) ==
  [Stmt EXCEPT !.op = "declare", !.slot = slot, !.parent = parent,
               !.kind = kind,
               !.reads = IF parent = "null" THEN {} ELSE {parent}]

LockLengthStmt(slot, local) ==
  [Stmt EXCEPT !.op = "lockLength", !.dpf = "clear", !.name = "length",
               !.value = UndefinedValue,
               !.reads = IF slot = "" THEN {} ELSE {slot},
               !.uses = IF local = "" THEN {} ELSE {local}]

GlobalFuncStmt(name, slot, paramCount) ==
  [Stmt EXCEPT !.op = "defineGlobalFunc", !.name = name, !.slot = slot,
               !.value = paramCount, !.dpf = "normal", !.local = "func",
               !.parent = NativeFunctionParent,
               !.reads = {NativeFunctionParent}, !.clears = TRUE,
               !.kind = "NativeFunction"]

\* What create<name>Constructor reads besides the prototype it populates.
CtorReads(name, proto) ==
  {proto, "functionPrototype"}
    \cup (IF name = "Number" THEN {"parseIntFunction", "parseFloatFunction"}
          ELSE {})
    \cup (IF proto \in {n \o "Prototype" : n \in SeqToSet(NativeErrorTypes)}
          THEN {"ErrorPrototype", "errorConstructor"} ELSE {})
    \cup (IF proto \in {n \o "ArrayPrototype" : n \in SeqToSet(TypedArrays)}
          THEN {"typedArrayBasePrototype", "typedArrayBaseConstructor"}
          ELSE {})

CtorStmt(name, proto, slot) ==
  [Stmt EXCEPT !.op = "ctor", !.name = name, !.parent = proto,
               !.slot = slot, !.reads = CtorReads(name, proto),
               !.kind = "NativeConstructor"]

PopulateStmt(slot) ==
  [Stmt EXCEPT !.op = "populate", !.slot = slot, !.reads = {slot}]

NamespaceStmt(name, dpf) ==
  [Stmt EXCEPT !.op = "namespace", !.name = name, !.dpf = dpf,
               !.parent = DefaultParent, !.reads = {DefaultParent},
               !.kind = "JSObject"]

ConstantStmts ==
  << ConstStmt("NaN", NaNValue),
     ConstStmt("Infinity", InfinityValue),
     ConstStmt("undefined", UndefinedValue) >>

ObjectPrototypeStmts ==
  << [DeclareStmt("objectPrototype", "null", "JSObject")
        EXCEPT !.alias = "objectPrototypeRawPtr"] >>

\* Variant: the native error prototypes are created with a null parent.
ErrorPrototypeStmtsUnchained ==
  << DeclareStmt("ErrorPrototype", "objectPrototype", "JSError") >>
  \o [i \in 1..Len(ErrorNames) |->
        DeclareStmt(ErrorNames[i] \o "Prototype", "null", "JSObject")]

ErrorPrototypeStmts ==
  << DeclareStmt("ErrorPrototype", "objectPrototype", "JSError") >>
  \o [i \in 1..Len(ErrorNames) |->
        DeclareStmt(ErrorNames[i] \o "Prototype", "ErrorPrototype", "JSObject")]

\* Variant: a global function is defined between the creation of the
\* ThrowTypeError function and the statements that use its handle.
FunctionPrototypeStmtsDefineEarly ==
  << [DeclareStmt("functionPrototype", "objectPrototype", "NativeFunction")
        EXCEPT !.alias = "functionPrototypeRawPtr", !.local = "funcRes"],
     LockLengthStmt("functionPrototype", ""),
     [Stmt EXCEPT !.op = "createThrowTypeError",
                  !.parent = "functionPrototype",
                  !.reads = {"functionPrototype"},
                  !.local = "throwTypeErrorFunction",
                  !.kind = "NativeFunction",
                  !.ctx = "Restricted in strict mode"],
     GlobalFuncStmt("print", "", 1),
     LockLengthStmt("", "throwTypeErrorFunction"),
     [Stmt EXCEPT !.op = "createAccessor",
                  !.slot = "throwTypeErrorAccessor",
                  !.uses = {"throwTypeErrorFunction"},
                  !.kind = "PropertyAccessor"] >>

FunctionPrototypeStmts ==
  << [DeclareStmt("functionPrototype", "objectPrototype", "NativeFunction")
        EXCEPT !.alias = "functionPrototypeRawPtr", !.local = "funcRes"],
     LockLengthStmt("functionPrototype", ""),
     [Stmt EXCEPT !.op = "createThrowTypeError",
                  !.parent = "functionPrototype",
                  !.reads = {"functionPrototype"},
                  !.local = "throwTypeErrorFunction",
                  !.kind = "NativeFunction",
                  !.ctx = "Restricted in strict mode"],
     LockLengthStmt("", "throwTypeErrorFunction"),
     [Stmt EXCEPT !.op = "createAccessor",
                  !.slot = "throwTypeErrorAccessor",
                  !.uses = {"throwTypeErrorFunction"},
                  !.kind = "PropertyAccessor"] >>

ParseFuncStmts ==
  << GlobalFuncStmt("parseInt", "parseIntFunction", 2),
     GlobalFuncStmt("parseFloat", "parseFloatFunction", 1) >>

\* Variant: the array class is declared before Array.prototype.
PrototypeStmtsClassFirst ==
  << DeclareStmt("stringPrototype", "objectPrototype", "JSString"),
     [Stmt EXCEPT !.op = "createClass", !.slot = "arrayClass",
                  !.alias = "arrayClassRawPtr", !.parent = "arrayPrototype",
                  !.reads = {"arrayPrototype"}, !.kind = "HiddenClass"],
     DeclareStmt("numberPrototype", "objectPrototype", "JSNumber"),
     DeclareStmt("booleanPrototype", "objectPrototype", "JSBoolean"),
     DeclareStmt("symbolPrototype", DefaultParent, "JSObject"),
     DeclareStmt("datePrototype", "objectPrototype", "JSObject"),
     DeclareStmt("iteratorPrototype", DefaultParent, "JSObject"),
     [DeclareStmt("arrayPrototype", "objectPrototype", "JSArray")
        EXCEPT !.alias = "arrayPrototypeRawPtr", !.local = "arrRes"],
     DeclareStmt("arrayBufferPrototype", "objectPrototype", "JSObject"),
     DeclareStmt("dataViewPrototype", "objectPrototype", "JSObject"),
     DeclareStmt("typedArrayBasePrototype", "objectPrototype",
                 "JSTypedArrayBase") >>
  \o [i \in 1..Len(ArrayNames) |->
        DeclareStmt(ArrayNames[i] \o "ArrayPrototype",
                    "typedArrayBasePrototype", "JSObject")]
  \o
  << DeclareStmt("setPrototype", "objectPrototype", "JSSet"),
     DeclareStmt("setIteratorPrototype", CollectionIteratorParent,
                 "JSObject"),
     DeclareStmt("mapPrototype", "objectPrototype", "JSMap"),
     DeclareStmt("mapIteratorPrototype", CollectionIteratorParent,
                 "JSObject"),
     DeclareStmt("regExpPrototype", "objectPrototype", "JSObject"),
     DeclareStmt("weakMapPrototype", DefaultParent, "JSObject"),
     DeclareStmt("weakSetPrototype", DefaultParent, "JSObject"),
     DeclareStmt("arrayIteratorPrototype", "iteratorPrototype", "JSObject"),
     DeclareStmt("stringIteratorPrototype", "iteratorPrototype", "JSObject"),
     DeclareStmt("generatorPrototype", "iteratorPrototype", "JSObject"),
     DeclareStmt("generatorFunctionPrototype", "functionPrototype",
                 "JSObject") >>

PrototypeStmts ==
  << DeclareStmt("stringPrototype", "objectPrototype", "JSString"),
     DeclareStmt("numberPrototype", "objectPrototype", "JSNumber"),
     DeclareStmt("booleanPrototype", "objectPrototype", "JSBoolean"),
     DeclareStmt("symbolPrototype", DefaultParent, "JSObject"),
     DeclareStmt("datePrototype", "objectPrototype", "JSObject"),
     DeclareStmt("iteratorPrototype", DefaultParent, "JSObject"),
     [DeclareStmt("arrayPrototype", "objectPrototype", "JSArray")
        EXCEPT !.alias = "arrayPrototypeRawPtr", !.local = "arrRes"],
     [Stmt EXCEPT !.op = "createClass", !.slot = "arrayClass",
                  !.alias = "arrayClassRawPtr", !.parent = "arrayPrototype",
                  !.reads = {"arrayPrototype"}, !.kind = "HiddenClass"],
     DeclareStmt("arrayBufferPrototype", "objectPrototype", "JSObject"),
     DeclareStmt("dataViewPrototype", "objectPrototype", "JSObject"),
     DeclareStmt("typedArrayBasePrototype", "objectPrototype",
             "JSTypedArrayBase") >>
  \o [i \in 1..Len(ArrayNames) |->
        DeclareStmt(ArrayNames[i] \o "ArrayPrototype",
                    "typedArrayBasePrototype", "JSObject")]
  \o
  << DeclareStmt("setPrototype", "objectPrototype", "JSSet"),
     DeclareStmt("setIteratorPrototype", CollectionIteratorParent, "JSObject"),
     DeclareStmt("mapPrototype", "objectPrototype", "JSMap"),
     DeclareStmt("mapIteratorPrototype", CollectionIteratorParent, "JSObject"),
     DeclareStmt("regExpPrototype", "objectPrototype", "JSObject"),
     DeclareStmt("weakMapPrototype", DefaultParent, "JSObject"),
     DeclareStmt("weakSetPrototype", DefaultParent, "JSObject"),
     DeclareStmt("arrayIteratorPrototype", "iteratorPrototype", "JSObject"),
     DeclareStmt("stringIteratorPrototype", "iteratorPrototype", "JSObject"),
     DeclareStmt("generatorPrototype", "iteratorPrototype", "JSObject"),
     DeclareStmt("generatorFunctionPrototype", "functionPrototype",
             "JSObject") >>

\* Variant: the TypedArrayBase constructor is created after the concrete
\* TypedArray constructors.
ConstructorStmtsBaseLast ==
  << CtorStmt("Object", "objectPrototype", ""),
     CtorStmt("Error", "ErrorPrototype", "errorConstructor") >>
  \o [i \in 1..Len(ErrorNames) |->
        [CtorStmt(ErrorNames[i], ErrorNames[i] \o "Prototype", "")
           EXCEPT !.clears = TRUE]]
  \o
  << CtorStmt("String", "stringPrototype", ""),
     CtorStmt("Function", "functionPrototype", ""),
     CtorStmt("Number", "numberPrototype", ""),
     CtorStmt("Boolean", "booleanPrototype", ""),
     CtorStmt("Date", "datePrototype", ""),
     [CtorStmt("RegExp", "regExpPrototype", "")
        EXCEPT !.undef = {"regExpLastInput", "regExpLastRegExp"}],
     CtorStmt("Array", "arrayPrototype", ""),
     CtorStmt("ArrayBuffer", "arrayBufferPrototype", ""),
     CtorStmt("DataView", "dataViewPrototype", "") >>
  \o [i \in 1..Len(ArrayNames) |->
        [CtorStmt(ArrayNames[i] \o "Array", ArrayNames[i] \o "ArrayPrototype",
              ArrayNames[i] \o "ArrayConstructor")
           EXCEPT !.clears = TRUE]]
  \o
  << CtorStmt("TypedArrayBase", "typedArrayBasePrototype",
          "typedArrayBaseConstructor"),
     CtorStmt("Set", "setPrototype", ""),
     CtorStmt("Map", "mapPrototype", ""),
     CtorStmt("WeakMap", "weakMapPrototype", ""),
     CtorStmt("WeakSet", "weakSetPrototype", ""),
     [CtorStmt("Symbol", "symbolPrototype", "") EXCEPT !.cond = TRUE] >>

ConstructorStmts ==
  << CtorStmt("Object", "objectPrototype", ""),
     CtorStmt("Error", "ErrorPrototype", "errorConstructor") >>
  \o [i \in 1..Len(ErrorNames) |->
        [CtorStmt(ErrorNames[i], ErrorNames[i] \o "Prototype", "")
           EXCEPT !.clears = TRUE]]
  \o
  << CtorStmt("String", "stringPrototype", ""),
     CtorStmt("Function", "functionPrototype", ""),
     CtorStmt("Number", "numberPrototype", ""),
     CtorStmt("Boolean", "booleanPrototype", ""),
     CtorStmt("Date", "datePrototype", ""),
     [CtorStmt("RegExp", "regExpPrototype", "")
        EXCEPT !.undef = {"regExpLastInput", "regExpLastRegExp"}],
     CtorStmt("Array", "arrayPrototype", ""),
     CtorStmt("ArrayBuffer", "arrayBufferPrototype", ""),
     CtorStmt("DataView", "dataViewPrototype", ""),
     CtorStmt("TypedArrayBase", "typedArrayBasePrototype",
          "typedArrayBaseConstructor") >>
  \o [i \in 1..Len(ArrayNames) |->
        [CtorStmt(ArrayNames[i] \o "Array", ArrayNames[i] \o "ArrayPrototype",
              ArrayNames[i] \o "ArrayConstructor")
           EXCEPT !.clears = TRUE]]
  \o
  << CtorStmt("Set", "setPrototype", ""),
     CtorStmt("Map", "mapPrototype", ""),
     CtorStmt("WeakMap", "weakMapPrototype", ""),
     CtorStmt("WeakSet", "weakSetPrototype", ""),
     [CtorStmt("Symbol", "symbolPrototype", "") EXCEPT !.cond = TRUE] >>

IteratorStmts ==
  << PopulateStmt("iteratorPrototype"),
     PopulateStmt("arrayIteratorPrototype"),
     PopulateStmt("stringIteratorPrototype") >>

NamespaceStmts ==
  << NamespaceStmt("Math", "normal"),
     NamespaceStmt("JSON", "normal"),
     NamespaceStmt("HermesInternal", "constant") >>

\* Variant: the last group defines parseInt a second time, with a new
\* function object.
GlobalFuncStmtsParseIntAgain ==
  << GlobalFuncStmt("print", "", 1),
     GlobalFuncStmt("eval", "", 1),
     GlobalFuncStmt("parseInt", "", 2),
     GlobalFuncStmt("isNaN", "", 1),
     GlobalFuncStmt("isFinite", "", 1),
     GlobalFuncStmt("escape", "", 1),
     GlobalFuncStmt("unescape", "", 1),
     GlobalFuncStmt("decodeURI", "", 1),
     GlobalFuncStmt("decodeURIComponent", "", 1),
     GlobalFuncStmt("encodeURI", "", 1),
     GlobalFuncStmt("encodeURIComponent", "", 1),
     GlobalFuncStmt("gc", "", 0) >>

GlobalFuncStmts ==
  << GlobalFuncStmt("print", "", 1),
     GlobalFuncStmt("eval", "", 1),
     GlobalFuncStmt("isNaN", "", 1),
     GlobalFuncStmt("isFinite", "", 1),
     GlobalFuncStmt("escape", "", 1),
     GlobalFuncStmt("unescape", "", 1),
     GlobalFuncStmt("decodeURI", "", 1),
     GlobalFuncStmt("decodeURIComponent", "", 1),
     GlobalFuncStmt("encodeURI", "", 1),
     GlobalFuncStmt("encodeURIComponent", "", 1),
     GlobalFuncStmt("gc", "", 0) >>

\* Variant: the iterator prototypes are populated before the constructors
\* are created.
ProgramIteratorsEarly ==
  ConstantStmts \o ObjectPrototypeStmts \o ErrorPrototypeStmts
    \o FunctionPrototypeStmts \o ParseFuncStmts \o PrototypeStmts
    \o IteratorStmts \o ConstructorStmts \o NamespaceStmts
    \o GlobalFuncStmts

\* The body of initGlobalObject.
Program ==
  ConstantStmts \o ObjectPrototypeStmts \o ErrorPrototypeStmts
    \o FunctionPrototypeStmts \o ParseFuncStmts \o PrototypeStmts
    \o ConstructorStmts \o IteratorStmts \o NamespaceStmts
    \o GlobalFuncStmts

Returned == Len(Program) + 1


(***************************************************************************)
(* State of the bootstrap.                                                 *)
(***************************************************************************)
SlotNames ==
  UNION {{Program[i].slot, Program[i].alias} \cup Program[i].undef
           \cup Program[i].reads : i \in DOMAIN Program} \ {""}

\* The slots that hold a forward-declared prototype.
PrototypeSlots ==
  {Program[i].slot : i \in {j \in DOMAIN Program : Program[j].op = "declare"}}

GlobalNames ==
  {Program[i].name :
     i \in {j \in DOMAIN Program :
              Program[j].op \in {"defineConstant", "defineGlobalFunc",
                                 "namespace", "ctor"}}}

CtorNames ==
  {Program[i].name : i \in {j \in DOMAIN Program : Program[j].op = "ctor"}}

\* The local handles of initGlobalObject and of defineGlobalFunc.
Locals == {"funcRes", "throwTypeErrorFunction", "arrRes", "func"}

\* A handle that gcScope.clearAllHandles() has released.
Stale == -5

NewObject(kind, parent, length, ctx) ==
  [kind |-> kind, parent |-> parent, length |-> length, ctx |-> ctx,
   getter |-> NullObj, setter |-> NullObj, populated |-> FALSE]

\* &runtime->slot as a Handle; the null handle for "null".
ReadSlot(s) == IF s = "null" THEN NullObj ELSE slots[s]

\* Variant: a constructor statement also stores a fresh object in the
\* prototype slot it has just captured.
WriteSlotsReplacingPrototype(st, id) ==
  [s \in SlotNames |->
     IF s = st.slot \/ s = st.alias \/ (st.op = "ctor" /\ s = st.parent)
     THEN id
     ELSE IF s \in st.undef THEN UndefinedValue
     ELSE slots[s]]

\* runtime->slot = id, with the raw-pointer alias and the slots the
\* statement sets to undefined.
WriteSlots(st, id) ==
  [s \in SlotNames |->
     IF s = st.slot \/ s = st.alias THEN id
     ELSE IF s \in st.undef THEN UndefinedValue
     ELSE slots[s]]

\* gcScope.clearAllHandles(): every live handle of the scope is released.
ClearAllHandles(hs) ==
  [h \in Locals |-> IF hs[h] = NullObj THEN NullObj ELSE Stale]

Cur == Program[pc]
Running == pc \in DOMAIN Program /\ ~aborted
At(op) == Running /\ Cur.op = op
NewId == Len(heap) + 1

\* No parser call is in progress.
ParserIdle ==
  /\ pi_pc = "idle" /\ pi_str = <<>>
  /\ pi_arg1 = [kind |-> "absent", hi |-> 0, lo |-> 0]
  /\ pi_radix = 10 /\ pi_stripPrefix = TRUE /\ pi_begin = 1 /\ pi_sign = 1
  /\ pi_realEnd = 1 /\ pi_result = [t |-> "none", s |-> 1, v |-> 0, e |-> 0]
  /\ pf_pc = "idle" /\ pf_str = <<>> /\ pf_begin = 1 /\ pf_str8 = <<>>
  /\ pf_i = 0 /\ pf_len = 0 /\ pf_endPtr = 0
  /\ pf_result = [t |-> "none", s |-> 1, v |-> 0, e |-> 0]

BootInit ==
  /\ pc = 1
  /\ slots = [s \in SlotNames |-> Unassigned]
  /\ heap = <<>>
  /\ globalProps = [n \in GlobalNames |-> NoProp]
  /\ ctorProto = [c \in CtorNames |-> Unassigned]
  /\ handles = [h \in Locals |-> NullObj]
  /\ aborted = FALSE
  /\ callResult = NoCall

Init ==
  /\ BootInit
  /\ hasES6Symbol \in BOOLEAN
  /\ ParserIdle
  /\ arg0Throws = FALSE

(***************************************************************************)
(* The statements of initGlobalObject as actions.                          *)
(***************************************************************************)
\* defineOwnProperty(getGlobal(), name, constantDPF, value)
DefineConstant ==
  /\ At("defineConstant")
  /\ globalProps' =
       [globalProps EXCEPT
          ![Cur.name] = DefineOwnProperty(@, DPFOf(Cur.dpf), Cur.value)]
  /\ pc' = pc + 1
  /\ UNCHANGED <<slots, heap, ctorProto, handles, aborted,
                 hasES6Symbol, parserVars, callVars>>

\* runtime->xPrototype = X::create(runtime, parent)
ForwardDeclare ==
  /\ At("declare")
  /\ heap' =
       Append(heap,
              NewObject(Cur.kind, ReadSlot(Cur.parent),
                        IF Cur.kind = "NativeFunction" THEN FunctionLength(0)
                        ELSE NoProp,
                        ""))
  /\ slots' = WriteSlots(Cur, NewId)
  /\ handles' =
       IF Cur.local = "" THEN handles ELSE [handles EXCEPT ![Cur.local] = NewId]
  /\ pc' = pc + 1
  /\ UNCHANGED <<globalProps, ctorProto, aborted, hasES6Symbol, parserVars,
                 callVars>>

\* runtime->arrayClass = JSArray::createClass(runtime, &arrayPrototype)
CreateArrayClass ==
  /\ At("createClass")
  /\ heap' = Append(heap, NewObject(Cur.kind, ReadSlot(Cur.parent), NoProp, ""))
  /\ slots' = WriteSlots(Cur, NewId)
  /\ pc' = pc + 1
  /\ UNCHANGED <<globalProps, ctorProto, handles, aborted,
                 hasES6Symbol, parserVars, callVars>>

\* defineOwnProperty(target, length, clearConfigurableDPF, undefined)
LockLength ==
  /\ At("lockLength")
  /\ LET target ==
           IF Cur.reads # {} THEN slots[CHOOSE s \in Cur.reads : TRUE]
           ELSE handles[CHOOSE h \in Cur.uses : TRUE]
     IN heap' =
          IF target \in DOMAIN heap
          THEN [heap EXCEPT
                  ![target].length =
                     DefineOwnProperty(@, DPFOf(Cur.dpf), Cur.value)]
          ELSE heap
  /\ pc' = pc + 1
  /\ UNCHANGED <<slots, globalProps, ctorProto, handles, aborted,
                 hasES6Symbol, parserVars, callVars>>

\* auto throwTypeErrorFunction = NativeFunction::create(..., message, ...)
CreateThrowTypeError ==
  /\ At("createThrowTypeError")
  /\ heap' =
       Append(heap,
              NewObject(Cur.kind, ReadSlot(Cur.parent), FunctionLength(0),
                        Cur.ctx))
  /\ handles' = [handles EXCEPT ![Cur.local] = NewId]
  /\ pc' = pc + 1
  /\ UNCHANGED <<slots, globalProps, ctorProto, aborted,
                 hasES6Symbol, parserVars, callVars>>

\* runtime->throwTypeErrorAccessor = PropertyAccessor::create(f, f)
CreateAccessor ==
  /\ At("createAccessor")
  /\ LET f == handles[CHOOSE h \in Cur.uses : TRUE] IN
       heap' =
         Append(heap,
                [NewObject(Cur.kind, NullObj, NoProp, "")
                   EXCEPT !.getter = f, !.setter = f])
  /\ slots' = WriteSlots(Cur, NewId)
  /\ pc' = pc + 1
  /\ UNCHANGED <<globalProps, ctorProto, handles, aborted,
                 hasES6Symbol, parserVars, callVars>>

\* defineGlobalFunc(name, functionPtr, paramCount), and the assignment of
\* its result to a runtime slot where the caller makes one.
DefineGlobalFunc ==
  /\ At("defineGlobalFunc")
  /\ heap' =
       Append(heap,
              NewObject(Cur.kind, ReadSlot(Cur.parent),
                        FunctionLength(Cur.value), ""))
  /\ handles' = [ClearAllHandles(handles) EXCEPT ![Cur.local] = NewId]
  /\ globalProps' =
       [globalProps EXCEPT
          ![Cur.name] = DefineOwnProperty(@, DPFOf(Cur.dpf), NewId)]
  /\ slots' = WriteSlots(Cur, NewId)
  /\ pc' = pc + 1
  /\ UNCHANGED <<ctorProto, aborted, hasES6Symbol, parserVars, callVars>>

\* create<Name>Constructor(runtime): the constructor captures its prototype,
\* populates it and is installed on the global object.
CreateConstructor ==
  /\ At("ctor")
  /\ Cur.cond => hasES6Symbol
  /\ LET proto == ReadSlot(Cur.parent)
         h1 == Append(heap,
                      NewObject(Cur.kind, ReadSlot(NativeFunctionParent),
                                FunctionLength(1), ""))
     IN /\ ctorProto' = [ctorProto EXCEPT ![Cur.name] = proto]
        /\ heap' = IF proto \in DOMAIN heap
                   THEN [h1 EXCEPT ![proto].populated = TRUE]
                   ELSE h1
  /\ slots' = WriteSlots(Cur, NewId)
  /\ globalProps' =
       [globalProps EXCEPT
          ![Cur.name] = DefineOwnProperty(@, normalDPF, NewId)]
  /\ handles' = IF Cur.clears THEN ClearAllHandles(handles) ELSE handles
  /\ pc' = pc + 1
  /\ UNCHANGED <<aborted, hasES6Symbol, parserVars, callVars>>

\* if (runtime->hasES6Symbol()) is false: nothing is created.
SkipSymbolConstructor ==
  /\ At("ctor")
  /\ Cur.cond /\ ~hasES6Symbol
  /\ pc' = pc + 1
  /\ UNCHANGED <<slots, heap, globalProps, ctorProto, handles, aborted,
                 hasES6Symbol, parserVars, callVars>>

\* populateIteratorPrototype and its array and string variants.
PopulateIteratorPrototype ==
  /\ At("populate")
  /\ LET proto == ReadSlot(Cur.slot) IN
       heap' = IF proto \in DOMAIN heap
               THEN [heap EXCEPT ![proto].populated = TRUE]
               ELSE heap
  /\ pc' = pc + 1
  /\ UNCHANGED <<slots, globalProps, ctorProto, handles, aborted,
                 hasES6Symbol, parserVars, callVars>>

\* defineOwnProperty(getGlobal(), name, dpf, create<Name>Object(runtime))
DefineNamespace ==
  /\ At("namespace")
  /\ heap' =
       Append(heap,
              [NewObject(Cur.kind, ReadSlot(Cur.parent), NoProp, "")
                 EXCEPT !.populated = TRUE])
  /\ globalProps' =
       [globalProps EXCEPT
          ![Cur.name] = DefineOwnProperty(@, DPFOf(Cur.dpf), NewId)]
  /\ pc' = pc + 1
  /\ UNCHANGED <<slots, ctorProto, handles, aborted,
                 hasES6Symbol, parserVars, callVars>>

\* Variant: the failure is ignored and the next statement runs.
AllocationFailureIgnored ==
  /\ Running
  /\ ~(Cur.cond /\ ~hasES6Symbol)
  /\ aborted' = TRUE
  /\ pc' = pc + 1
  /\ UNCHANGED <<slots, heap, globalProps, ctorProto, handles,
                 hasES6Symbol, parserVars, callVars>>

\* An allocation or property definition of the current statement runs out
\* of memory: ignoreAllocationFailure ends the process.
AllocationFailure ==
  /\ Running
  /\ ~(Cur.cond /\ ~hasES6Symbol)
  /\ aborted' = TRUE
  /\ UNCHANGED <<pc, slots, heap, globalProps, ctorProto, handles,
                 hasES6Symbol, parserVars, callVars>>

(***************************************************************************)
(* Native calls made by the program that runs once initGlobalObject has    *)
(* returned.                                                               *)
(***************************************************************************)
Bootstrapped == pc = Returned /\ ~aborted

\* Variant: a call without arguments returns undefined.
throwTypeErrorUnlessBare(ctx, argc) ==
  IF ctx = ""
  THEN [NoCall EXCEPT !.call = "throwTypeError", !.status = "ASSERT"]
  ELSE IF argc = 0
  THEN [NoCall EXCEPT !.call = "throwTypeError", !.status = "RETURNED",
                      !.value = "undefined"]
  ELSE [NoCall EXCEPT !.call = "throwTypeError", !.status = "EXCEPTION",
                      !.error = "TypeError", !.message = ctx]

\* throwTypeError(ctx, runtime, args): raiseTypeError(message) with the
\* message passed as context; the arguments are not looked at.
throwTypeError(ctx, argc) ==
  IF ctx = ""
  THEN [NoCall EXCEPT !.call = "throwTypeError", !.status = "ASSERT"]
  ELSE [NoCall EXCEPT !.call = "throwTypeError", !.status = "EXCEPTION",
                      !.error = "TypeError", !.message = ctx]

\* The getter or the setter of runtime->throwTypeErrorAccessor is called,
\* as reading or writing a restricted property does.
InvokeThrowTypeError ==
  /\ Bootstrapped
  /\ \E via \in {"getter", "setter"}, argc \in 0..MaxArgs :
       LET accessor == heap[slots["throwTypeErrorAccessor"]]
           f == IF via = "getter" THEN accessor.getter ELSE accessor.setter
       IN /\ f \in DOMAIN heap
          /\ callResult' =
               [throwTypeError(heap[f].ctx, argc) EXCEPT !.target = via]
  /\ UNCHANGED <<bootVars, parserVars, arg0Throws>>

\* The global properties, descriptors and values the later calls try.
UserTargets == {"NaN", "Infinity", "undefined", "Math"}
UserDPFs ==
  {constantDPF, normalDPF, clearConfigurableDPF,
   [normalDPF EXCEPT !.enumerable = 1],
   [emptyDPF EXCEPT !.setValue = 1],
   [emptyDPF EXCEPT !.setWritable = 1, !.writable = 1]}
UserValues == {NaNValue, UndefinedValue, 1}

\* JSObject::defineOwnProperty(getGlobal(), name, dpf, value) reports
\* whether the definition was accepted.
UserDefineProperty ==
  /\ Bootstrapped
  /\ \E n \in UserTargets, dpf \in UserDPFs, v \in UserValues :
       LET new == DefineOwnProperty(globalProps[n], dpf, v) IN
         /\ globalProps' = [globalProps EXCEPT ![n] = new]
         /\ callResult' =
              [NoCall EXCEPT
                 !.call = "defineOwnProperty", !.target = n,
                 !.status = "RETURNED",
                 !.value = IF new = ApplyDPF(globalProps[n], dpf, v)
                           THEN "true" ELSE "false"]
  /\ UNCHANGED <<pc, slots, heap, ctorProto, handles, aborted, hasES6Symbol,
                 parserVars, arg0Throws>>

\* An assignment to a global property: only a writable property takes the
\* value.
UserPutProperty ==
  /\ Bootstrapped
  /\ \E n \in UserTargets, v \in UserValues :
       LET cur == globalProps[n]
           ok == cur.present /\ cur.writable
       IN /\ globalProps' =
               IF ok THEN [globalProps EXCEPT ![n].value = v] ELSE globalProps
          /\ callResult' =
               [NoCall EXCEPT !.call = "putNamed", !.target = n,
                              !.status = "RETURNED",
                              !.value = IF ok THEN "true" ELSE "false"]
  /\ UNCHANGED <<pc, slots, heap, ctorProto, handles, aborted, hasES6Symbol,
                 parserVars, arg0Throws>>

\* delete of a global property: only a configurable property goes away.
UserDeleteProperty ==
  /\ Bootstrapped
  /\ \E n \in UserTargets :
       LET cur == globalProps[n]
           ok == ~cur.present \/ cur.configurable
       IN /\ globalProps' =
               IF ok THEN [globalProps EXCEPT ![n] = NoProp] ELSE globalProps
          /\ callResult' =
               [NoCall EXCEPT !.call = "deleteNamed", !.target = n,
                              !.status = "RETURNED",
                              !.value = IF ok THEN "true" ELSE "false"]
  /\ UNCHANGED <<pc, slots, heap, ctorProto, handles, aborted, hasES6Symbol,
                 parserVars, arg0Throws>>

Next ==
  \/ DefineConstant
  \/ ForwardDeclare
  \/ CreateArrayClass
  \/ LockLength
  \/ CreateThrowTypeError
  \/ CreateAccessor
  \/ DefineGlobalFunc
  \/ CreateConstructor
  \/ SkipSymbolConstructor
  \/ PopulateIteratorPrototype
  \/ DefineNamespace
  \/ AllocationFailure
  \/ InvokeThrowTypeError
  \/ UserDefineProperty
  \/ UserPutProperty
  \/ UserDeleteProperty

Spec == Init /\ [][Next]_vars


(***************************************************************************)
(* Characters and numbers of the parsers.                                  *)
(***************************************************************************)
\* UTF-16 code units of the characters the parsers name.
Ord ==
  [c \in {"\t", "\n", " ", "+", "-", ".", "0", "1", "5", "9", "A", "E", "F",
          "I", "N", "X", "Z", "a", "e", "f", "g", "i", "n", "t", "x", "y",
          "z"} |->
     CASE c = "\t" -> 9 [] c = "\n" -> 10 [] c = " " -> 32 [] c = "+" -> 43
       [] c = "-" -> 45 [] c = "." -> 46 [] c = "0" -> 48 [] c = "1" -> 49
       [] c = "5" -> 53 [] c = "9" -> 57 [] c = "A" -> 65 [] c = "E" -> 69
       [] c = "F" -> 70 [] c = "I" -> 73 [] c = "N" -> 78 [] c = "X" -> 88
       [] c = "Z" -> 90 [] c = "a" -> 97 [] c = "e" -> 101 [] c = "f" -> 102
       [] c = "g" -> 103 [] c = "i" -> 105 [] c = "n" -> 110
       [] c = "t" -> 116 [] c = "x" -> 120 [] c = "y" -> 121
       [] c = "z" -> 122]

\* The code units of a sequence of one-character strings.
Str(cs) == [i \in DOMAIN cs |-> Ord[cs[i]]]

\* ES5.1 7.2 WhiteSpace and 7.3 LineTerminator.
isWhiteSpaceChar(c) == c \in {9, 11, 12, 32, 160, 65279}
isLineTerminatorChar(c) == c \in {10, 13, 8232, 8233}

\* The lower-case form of an ASCII letter.
letterToLower(c) == IF c >= Ord["A"] /\ c <= Ord["Z"] THEN c + 32 ELSE c

\* Results: NaN, a signed infinity, or a finite number s * v * 10^e
\* (the sign is kept apart so that -0 differs from +0).
NaN == [t |-> "nan", s |-> 1, v |-> 0, e |-> 0]
Inf(sign) == [t |-> "inf", s |-> sign, v |-> 0, e |-> 0]
Num(sign, v) == [t |-> "num", s |-> sign, v |-> v, e |-> 0]
NoResult == [t |-> "none", s |-> 1, v |-> 0, e |-> 0]

\* Number arguments are hi * 2^16 + lo with lo in 0..65535, so that values
\* around 2^32 can be written.
Limb == 65536
Number(hi, lo) == [kind |-> "number", hi |-> hi, lo |-> lo]
Absent == [kind |-> "absent", hi |-> 0, lo |-> 0]
Undefined == [kind |-> "undefined", hi |-> 0, lo |-> 0]
\* An object whose conversion to a number raises an exception.
ThrowingObject == [kind |-> "throws", hi |-> 0, lo |-> 0]

\* ES5.1 9.5 ToInt32 of an integral number: modulo 2^32, into
\* [-2^31, 2^31).
toInt32(n) ==
  LET h == n.hi % Limb IN
  IF h >= Limb \div 2 THEN (h - Limb) * Limb + n.lo ELSE h * Limb + n.lo

\* The value of a digit in any radix up to 36.
DigitOf(c) ==
  IF c >= Ord["0"] /\ c <= Ord["9"] THEN c - Ord["0"]
  ELSE letterToLower(c) - Ord["a"] + 10

\* parseIntWithRadix: the digits accumulated left to right.
RECURSIVE parseIntWithRadix(_, _)
parseIntWithRadix(digits, radix) ==
  IF digits = <<>> THEN 0
  ELSE parseIntWithRadix(SubSeq(digits, 1, Len(digits) - 1), radix) * radix
         + DigitOf(digits[Len(digits)])

(***************************************************************************)
(* parseInt(string, radix), ES5.1 15.1.2.2.                                *)
(***************************************************************************)
\* Variant: the upper bound of the letter digits is off by one.
isValidRadixCharInclusive(c, radix) ==
  IF c >= Ord["0"] /\ c <= Ord["9"]
  THEN radix >= 10 \/ c < Ord["0"] + radix
  ELSE LET l == letterToLower(c) IN
       radix > 10 /\ l >= Ord["a"] /\ l <= Ord["a"] + radix - 10

\* Given a character c in radix radix, checks if it's valid.
isValidRadixChar(c, radix) ==
  IF c >= Ord["0"] /\ c <= Ord["9"]
  THEN radix >= 10 \/ c < Ord["0"] + radix
  ELSE LET l == letterToLower(c) IN
       radix > 10 /\ l >= Ord["a"] /\ l < Ord["a"] + radix - 10

\* Variant: the prefix is stripped whatever the radix.
RadixOfKeepStrip(arg1) ==
  IF arg1.kind = "number"
  THEN LET r == toInt32(arg1) IN
       IF r = 0 THEN [radix |-> 10, stripPrefix |-> TRUE, nan |-> FALSE]
       ELSE IF r < 2 \/ r > 36
       THEN [radix |-> r, stripPrefix |-> TRUE, nan |-> TRUE]
       ELSE [radix |-> r, stripPrefix |-> TRUE, nan |-> FALSE]
  ELSE [radix |-> 10, stripPrefix |-> TRUE, nan |-> FALSE]

\* Variant: the decisions are taken on the number itself, before any
\* conversion to 32 bits.
RadixOfRaw(arg1) ==
  IF arg1.kind = "number"
  THEN IF arg1.hi = 0 /\ arg1.lo = 0
       THEN [radix |-> 10, stripPrefix |-> TRUE, nan |-> FALSE]
       ELSE IF arg1.hi # 0 \/ arg1.lo < 2 \/ arg1.lo > 36
       THEN [radix |-> arg1.lo, stripPrefix |-> TRUE, nan |-> TRUE]
       ELSE [radix |-> arg1.lo, stripPrefix |-> (arg1.lo = 16), nan |-> FALSE]
  ELSE [radix |-> 10, stripPrefix |-> TRUE, nan |-> FALSE]

\* Variant: the range check lets radix 37 through.
RadixOfWide(arg1) ==
  IF arg1.kind = "number"
  THEN LET r == toInt32(arg1) IN
       IF r = 0 THEN [radix |-> 10, stripPrefix |-> TRUE, nan |-> FALSE]
       ELSE IF r < 2 \/ r > 37
       THEN [radix |-> r, stripPrefix |-> TRUE, nan |-> TRUE]
       ELSE [radix |-> r, stripPrefix |-> (r = 16), nan |-> FALSE]
  ELSE [radix |-> 10, stripPrefix |-> TRUE, nan |-> FALSE]

\* The radix, stripPrefix and the early NaN return decided from arg1.
RadixOf(arg1) ==
  IF arg1.kind = "number"
  THEN LET r == toInt32(arg1) IN
       IF r = 0 THEN [radix |-> 10, stripPrefix |-> TRUE, nan |-> FALSE]
       ELSE IF r < 2 \/ r > 36
       THEN [radix |-> r, stripPrefix |-> TRUE, nan |-> TRUE]
       ELSE [radix |-> r, stripPrefix |-> (r = 16), nan |-> FALSE]
  ELSE [radix |-> 10, stripPrefix |-> TRUE, nan |-> FALSE]

\* Remove leading whitespaces: the index of the first other character.
RECURSIVE SkipWhitespace(_, _)
SkipWhitespace(str, begin) ==
  IF begin <= Len(str)
       /\ (isWhiteSpaceChar(str[begin]) \/ isLineTerminatorChar(str[begin]))
  THEN SkipWhitespace(str, begin + 1)
  ELSE begin

\* Process sign: the sign and the index after it.
ProcessSign(str, begin) ==
  IF begin <= Len(str) /\ str[begin] \in {Ord["+"], Ord["-"]}
  THEN [sign |-> IF str[begin] = Ord["-"] THEN -1 ELSE 1, begin |-> begin + 1]
  ELSE [sign |-> 1, begin |-> begin]

\* Variant: a prefix is only looked for when no sign came before it.
StripPrefixUnsignedOnly(str, begin, stripPrefix, radix) ==
  IF stripPrefix /\ begin = SkipWhitespace(str, 1)
       /\ begin <= Len(str) /\ str[begin] = Ord["0"]
       /\ begin + 1 <= Len(str) /\ letterToLower(str[begin + 1]) = Ord["x"]
  THEN [begin |-> begin + 2, radix |-> 16]
  ELSE [begin |-> begin, radix |-> radix]

\* Variant: only a lower-case x makes a prefix.
StripPrefixLowerOnly(str, begin, stripPrefix, radix) ==
  IF stripPrefix /\ begin <= Len(str) /\ str[begin] = Ord["0"]
       /\ begin + 1 <= Len(str) /\ str[begin + 1] = Ord["x"]
  THEN [begin |-> begin + 2, radix |-> 16]
  ELSE [begin |-> begin, radix |-> radix]

\* Strip 0x or 0X for 16-radix number: the index after the prefix and the
\* radix to scan in.
StripPrefix(str, begin, stripPrefix, radix) ==
  IF stripPrefix /\ begin <= Len(str) /\ str[begin] = Ord["0"]
       /\ begin + 1 <= Len(str) /\ letterToLower(str[begin + 1]) = Ord["x"]
  THEN [begin |-> begin + 2, radix |-> 16]
  ELSE [begin |-> begin, radix |-> radix]

\* Find the longest prefix that's still a valid int: the index after it.
RECURSIVE ScanDigits(_, _, _)
ScanDigits(str, realEnd, radix) ==
  IF realEnd <= Len(str) /\ isValidRadixChar(str[realEnd], radix)
  THEN ScanDigits(str, realEnd + 1, radix)
  ELSE realEnd

\* Inputs of parseInt: whitespace, sign, prefix, and a free tail.
PILead == {<<>>, Str(<<" ">>), Str(<<"\n", "\t">>)}
PISign == {<<>>, Str(<<"+">>), Str(<<"-">>)}
PIPrefix == {<<>>, Str(<<"0", "x">>), Str(<<"0", "X">>)}
PITailChars ==
  {Ord[c] : c \in {"0", "1", "9", "f", "Z", "g", "x", " ", "-"}}
RECURSIVE Tails(_, _)
Tails(chars, n) ==
  IF n = 0 THEN {<<>>}
  ELSE LET shorter == Tails(chars, n - 1) IN
       shorter \cup {Append(t, c) : t \in shorter, c \in chars}
PIStrings ==
  {l \o g \o p \o t :
     l \in PILead, g \in PISign, p \in PIPrefix,
     t \in Tails(PITailChars, MaxTail)}
PIRadixArgs ==
  {Absent, Undefined, Number(0, 0), Number(0, 1), Number(0, 2),
   Number(0, 10), Number(0, 16), Number(0, 36), Number(0, 37),
   Number(-1, 65535), Number(65536, 0), Number(65536, 16), ThrowingObject}

\* No parseFloat call is in progress.
ParseFloatIdle ==
  /\ pf_pc = "idle" /\ pf_str = <<>> /\ pf_begin = 1 /\ pf_str8 = <<>>
  /\ pf_i = 0 /\ pf_len = 0 /\ pf_endPtr = 0 /\ pf_result = NoResult

InitParseInt ==
  /\ BootInit
  /\ hasES6Symbol = FALSE
  /\ ParseFloatIdle
  /\ pi_pc = "toString"
  /\ \/ arg0Throws = FALSE /\ pi_str \in PIStrings
     \/ arg0Throws = TRUE /\ pi_str = <<>>
  /\ pi_arg1 \in PIRadixArgs
  /\ pi_radix = 10
  /\ pi_stripPrefix = TRUE
  /\ pi_begin = 1
  /\ pi_sign = 1
  /\ pi_realEnd = 1
  /\ pi_result = NoResult

\* Lines 65-69: toString(arg0); its exception is passed on.
ParseIntToString ==
  /\ pi_pc = "toString"
  /\ pi_pc' = IF arg0Throws THEN "raised" ELSE "radix"
  /\ UNCHANGED <<pi_str, pi_arg1, pi_radix, pi_stripPrefix, pi_begin, pi_sign,
                 pi_realEnd, pi_result, bootVars, pfVars, callVars>>

\* Lines 71-87: the radix is decided; the exception of toInt32(arg1) is
\* passed on, and an out-of-range radix returns NaN.
ParseIntRadix ==
  /\ pi_pc = "radix"
  /\ IF pi_arg1 = ThrowingObject
     THEN /\ pi_pc' = "raised"
          /\ UNCHANGED <<pi_radix, pi_stripPrefix, pi_result>>
     ELSE LET r == RadixOf(pi_arg1) IN
            /\ pi_radix' = r.radix
            /\ pi_stripPrefix' = r.stripPrefix
            /\ pi_pc' = IF r.nan THEN "done" ELSE "scan"
            /\ pi_result' = IF r.nan THEN NaN ELSE pi_result
  /\ UNCHANGED <<pi_str, pi_arg1, pi_begin, pi_sign, pi_realEnd, bootVars,
                 pfVars, callVars>>

\* Variant: text without a digit is reported by raising an exception.
ParseIntScanRaising ==
  /\ pi_pc = "scan"
  /\ LET b == SkipWhitespace(pi_str, 1)
         g == ProcessSign(pi_str, b)
         p == StripPrefix(pi_str, g.begin, pi_stripPrefix, pi_radix)
         realEnd == ScanDigits(pi_str, p.begin, p.radix)
     IN /\ pi_begin' = p.begin
        /\ pi_sign' = g.sign
        /\ pi_radix' = p.radix
        /\ pi_realEnd' = realEnd
        /\ pi_result' =
             IF realEnd = p.begin THEN pi_result
             ELSE Num(g.sign,
                      parseIntWithRadix(
                        SubSeq(pi_str, p.begin, realEnd - 1), p.radix))
        /\ pi_pc' = IF realEnd = p.begin THEN "raised" ELSE "done"
  /\ UNCHANGED <<pi_str, pi_arg1, pi_stripPrefix, bootVars, pfVars,
                 callVars>>

\* Lines 89-131: whitespace, sign, prefix, digit run and result.
ParseIntScan ==
  /\ pi_pc = "scan"
  /\ LET b == SkipWhitespace(pi_str, 1)
         g == ProcessSign(pi_str, b)
         p == StripPrefix(pi_str, g.begin, pi_stripPrefix, pi_radix)
         realEnd == ScanDigits(pi_str, p.begin, p.radix)
     IN /\ pi_begin' = p.begin
        /\ pi_sign' = g.sign
        /\ pi_radix' = p.radix
        /\ pi_realEnd' = realEnd
        /\ pi_result' =
             IF realEnd = p.begin THEN NaN
             ELSE Num(g.sign,
                      parseIntWithRadix(
                        SubSeq(pi_str, p.begin, realEnd - 1), p.radix))
  /\ pi_pc' = "done"
  /\ UNCHANGED <<pi_str, pi_arg1, pi_stripPrefix, bootVars, pfVars,
                 callVars>>

\* parseInt as a function of its converted arguments: what the call returns
\* for the text str and the radix argument arg1.
parseInt(str, arg1) ==
  LET r == RadixOf(arg1) IN
  IF r.nan THEN NaN
  ELSE LET b == SkipWhitespace(str, 1)
           g == ProcessSign(str, b)
           p == StripPrefix(str, g.begin, r.stripPrefix, r.radix)
           realEnd == ScanDigits(str, p.begin, p.radix)
       IN IF realEnd = p.begin THEN NaN
          ELSE Num(g.sign,
                   parseIntWithRadix(SubSeq(str, p.begin, realEnd - 1),
                                     p.radix))

NextParseInt == ParseIntToString \/ ParseIntRadix \/ ParseIntScan

SpecParseInt == InitParseInt /\ [][NextParseInt]_vars

(***************************************************************************)
(* g_strtod: the value of the longest decimal literal at the start of a    *)
(* C string, and the number of characters it spans.  Values are exact      *)
(* decimals s * v * 10^e with v free of trailing zeros; magnitudes beyond  *)
(* the range of a double become infinity or zero.                          *)
(***************************************************************************)
IsDecimalDigit(c) == c >= Ord["0"] /\ c <= Ord["9"]

\* The index after the decimal digits that start at from.
RECURSIVE ScanDecimal(_, _)
ScanDecimal(s, from) ==
  IF from <= Len(s) /\ IsDecimalDigit(s[from])
  THEN ScanDecimal(s, from + 1)
  ELSE from

\* The number written by the decimal digits among s[from..to-1].
RECURSIVE DecimalValue(_, _, _)
DecimalValue(s, from, to) ==
  IF to <= from THEN 0
  ELSE IF IsDecimalDigit(s[to - 1])
  THEN DecimalValue(s, from, to - 1) * 10 + (s[to - 1] - Ord["0"])
  ELSE DecimalValue(s, from, to - 1)

RECURSIVE DigitCount(_)
DigitCount(v) == IF v < 10 THEN 1 ELSE 1 + DigitCount(v \div 10)

\* Largest and smallest decimal exponents of a double's leading digit.
MaxDoubleExp == 308
MinDoubleExp == -324

\* s * v * 10^e as a result, normalised.
RECURSIVE Decimal(_, _, _)
Decimal(sign, v, e) ==
  IF v = 0 THEN [t |-> "num", s |-> sign, v |-> 0, e |-> 0]
  ELSE IF v % 10 = 0 THEN Decimal(sign, v \div 10, e + 1)
  ELSE IF e + DigitCount(v) - 1 > MaxDoubleExp THEN Inf(sign)
  ELSE IF e + DigitCount(v) - 1 < MinDoubleExp
  THEN [t |-> "num", s |-> sign, v |-> 0, e |-> 0]
  ELSE [t |-> "num", s |-> sign, v |-> v, e |-> e]

g_strtod(s) ==
  LET signed == s # <<>> /\ s[1] \in {Ord["+"], Ord["-"]}
      sign == IF signed /\ s[1] = Ord["-"] THEN -1 ELSE 1
      p == IF signed THEN 2 ELSE 1
      intEnd == ScanDecimal(s, p)
      dot == intEnd <= Len(s) /\ s[intEnd] = Ord["."]
      fracEnd == IF dot THEN ScanDecimal(s, intEnd + 1) ELSE intEnd
      nd == (intEnd - p) + (IF dot THEN fracEnd - intEnd - 1 ELSE 0)
      nf == IF dot THEN fracEnd - intEnd - 1 ELSE 0
      hasE == fracEnd <= Len(s) /\ s[fracEnd] \in {Ord["e"], Ord["E"]}
      esigned == hasE /\ fracEnd + 1 <= Len(s)
                   /\ s[fracEnd + 1] \in {Ord["+"], Ord["-"]}
      esign == IF esigned /\ s[fracEnd + 1] = Ord["-"] THEN -1 ELSE 1
      ep == IF esigned THEN fracEnd + 2 ELSE fracEnd + 1
      expEnd == IF hasE THEN ScanDecimal(s, ep) ELSE fracEnd
      hasExp == hasE /\ expEnd > ep
      exp == IF hasExp THEN esign * DecimalValue(s, ep, expEnd) ELSE 0
      end == IF hasExp THEN expEnd ELSE fracEnd
  IN IF nd = 0
     THEN [value |-> Decimal(1, 0, 0), consumed |-> 0]
     ELSE [value |-> Decimal(sign, DecimalValue(s, p, fracEnd), exp - nf),
           consumed |-> end - 1]

(***************************************************************************)
(* parseFloat(string), ES5.1 15.1.2.3.                                     *)
(***************************************************************************)
\* Predefined::Infinity, PositiveInfinity, NegativeInfinity and NaN.
InfinityStr == Str(<<"I", "n", "f", "i", "n", "i", "t", "y">>)
PositiveInfinityStr == <<Ord["+"]>> \o InfinityStr
NegativeInfinityStr == <<Ord["-"]>> \o InfinityStr
NaNStr == Str(<<"N", "a", "N">>)

\* Variant: the two strings must be equal.
isPrefixExact(str1, str2) ==
  IF Len(str1) # Len(str2) THEN FALSE
  ELSE \A i \in 1..Len(str1) : str1[i] = str2[i]

\* Check if str1 is a prefix of str2.
isPrefix(str1, str2) ==
  IF Len(str1) > Len(str2) THEN FALSE
  ELSE \A i \in 1..Len(str1) : str1[i] = str2[i]

\* Variant: only a lower-case e is copied.
IsFloatCharLowerE(c) ==
  \/ (c >= Ord["0"] /\ c <= Ord["9"])
  \/ c = Ord["."]
  \/ c = Ord["e"]
  \/ c = Ord["+"]
  \/ c = Ord["-"]

\* The characters copied into the 8-bit buffer.
IsFloatChar(c) ==
  \/ (c >= Ord["0"] /\ c <= Ord["9"])
  \/ c = Ord["."]
  \/ letterToLower(c) = Ord["e"]
  \/ c = Ord["+"]
  \/ c = Ord["-"]

\* The number of characters the copy loop copies.
RECURSIVE CopyCount(_, _)
CopyCount(str16, i) ==
  IF i < Len(str16) /\ IsFloatChar(str16[i + 1])
  THEN CopyCount(str16, i + 1)
  ELSE i

\* The C string a buffer holds: its cells up to the first NUL.
RECURSIVE CString(_)
CString(buf) ==
  IF buf = <<>> \/ buf[1] = 0 THEN <<>>
  ELSE <<buf[1]>> \o CString(Tail(buf))

\* Inputs of parseFloat: blanks, then a free tail or a token and a tail.
PFLead == {<<>>, Str(<<"\n", " ">>)}
PFHeads ==
  {InfinityStr, PositiveInfinityStr, NegativeInfinityStr, NaNStr,
   SubSeq(InfinityStr, 1, 7), SubSeq(NegativeInfinityStr, 1, 4),
   SubSeq(NaNStr, 1, 2)}
PFTailChars ==
  {Ord[c] : c \in {"0", "1", "5", ".", "e", "E", "+", "-", "x"}}
PFStrings ==
  {l \o t : l \in PFLead, t \in Tails(PFTailChars, MaxFloatTail)}
    \cup {l \o h \o t :
            l \in PFLead, h \in PFHeads, t \in Tails(PFTailChars, 1)}

\* No parseInt call is in progress.
ParseIntIdle ==
  /\ pi_pc = "idle" /\ pi_str = <<>> /\ pi_arg1 = Absent /\ pi_radix = 10
  /\ pi_stripPrefix = TRUE /\ pi_begin = 1 /\ pi_sign = 1 /\ pi_realEnd = 1
  /\ pi_result = NoResult

InitParseFloat ==
  /\ BootInit
  /\ hasES6Symbol = FALSE
  /\ ParseIntIdle
  /\ pf_pc = "toString"
  /\ \/ arg0Throws = FALSE /\ pf_str \in PFStrings
     \/ arg0Throws = TRUE /\ pf_str = <<>>
  /\ pf_begin = 1
  /\ pf_str8 = <<>>
  /\ pf_i = 0
  /\ pf_len = 0
  /\ pf_endPtr = 0
  /\ pf_result = NoResult

\* str16: the text after the leading whitespace.
Str16 == SubSeq(pf_str, pf_begin, Len(pf_str))

\* Lines 153-159: toString(arg0); its exception is passed on.
ParseFloatToString ==
  /\ pf_pc = "toString"
  /\ pf_pc' = IF arg0Throws THEN "raised" ELSE "special"
  /\ UNCHANGED <<pf_str, pf_begin, pf_str8, pf_i, pf_len, pf_endPtr,
                 pf_result, bootVars, piVars, callVars>>

\* Lines 163-202: trim leading whitespace, then check for special values.
ParseFloatSpecial ==
  /\ pf_pc = "special"
  /\ LET begin == SkipWhitespace(pf_str, 1)
         str16 == SubSeq(pf_str, begin, Len(pf_str))
         special ==
           IF isPrefix(InfinityStr, str16) THEN Inf(1)
           ELSE IF isPrefix(PositiveInfinityStr, str16) THEN Inf(1)
           ELSE IF isPrefix(NegativeInfinityStr, str16) THEN Inf(-1)
           ELSE IF isPrefix(NaNStr, str16) THEN NaN
           ELSE NoResult
     IN /\ pf_begin' = begin
        /\ pf_result' = special
        /\ pf_pc' = IF special = NoResult THEN "copy" ELSE "done"
  /\ UNCHANGED <<pf_str, pf_str8, pf_i, pf_len, pf_endPtr, bootVars, piVars,
                 callVars>>

\* Variant: the buffer has len cells, no room for the terminator.
ParseFloatCopyShortBuffer ==
  /\ pf_pc = "copy"
  /\ LET len == Len(Str16)
         i == CopyCount(Str16, 0)
         str8 == [k \in 1..len |-> IF k <= i THEN Str16[k] ELSE 0]
     IN /\ pf_i' = i
        /\ IF i = 0
           THEN /\ pf_result' = NaN
                /\ pf_pc' = "done"
                /\ pf_len' = len
                /\ pf_str8' = str8
           ELSE /\ pf_result' = pf_result
                /\ pf_pc' = "probe"
                /\ pf_len' = i
                /\ pf_str8' = [str8 EXCEPT ![i + 1] = 0]
  /\ UNCHANGED <<pf_str, pf_begin, pf_endPtr, bootVars, piVars, callVars>>

\* Lines 204-227: copy the number characters into str8 and terminate it.
ParseFloatCopy ==
  /\ pf_pc = "copy"
  /\ LET len == Len(Str16)
         i == CopyCount(Str16, 0)
         str8 == [k \in 1..(len + 1) |-> IF k <= i THEN Str16[k] ELSE 0]
     IN /\ pf_i' = i
        /\ IF i = 0
           THEN /\ pf_result' = NaN
                /\ pf_pc' = "done"
                /\ pf_len' = len
                /\ pf_str8' = str8
           ELSE /\ pf_result' = pf_result
                /\ pf_pc' = "probe"
                /\ pf_len' = i
                /\ pf_str8' = [str8 EXCEPT ![i + 1] = 0]
  /\ UNCHANGED <<pf_str, pf_begin, pf_endPtr, bootVars, piVars, callVars>>

\* Lines 228-235: the first g_strtod finds the longest valid prefix, and
\* the buffer is cut there.
ParseFloatProbe ==
  /\ pf_pc = "probe"
  /\ LET endPtr == g_strtod(CString(pf_str8)).consumed IN
       /\ pf_endPtr' = endPtr
       /\ IF endPtr = 0
          THEN /\ pf_result' = NaN
               /\ pf_pc' = "done"
               /\ pf_str8' = pf_str8
          ELSE /\ pf_result' = pf_result
               /\ pf_pc' = "reparse"
               /\ pf_str8' = [pf_str8 EXCEPT ![endPtr + 1] = 0]
  /\ UNCHANGED <<pf_str, pf_begin, pf_i, pf_len, bootVars, piVars,
                 callVars>>

\* Line 236: the second g_strtod gives the value of the cut buffer.
ParseFloatReparse ==
  /\ pf_pc = "reparse"
  /\ pf_result' = g_strtod(CString(pf_str8)).value
  /\ pf_pc' = "done"
  /\ UNCHANGED <<pf_str, pf_begin, pf_str8, pf_i, pf_len, pf_endPtr,
                 bootVars, piVars, callVars>>

NextParseFloat ==
  \/ ParseFloatToString
  \/ ParseFloatSpecial
  \/ ParseFloatCopy
  \/ ParseFloatProbe
  \/ ParseFloatReparse

SpecParseFloat == InitParseFloat /\ [][NextParseFloat]_vars


(***************************************************************************)
(* Either parser, called once.                                             *)
(***************************************************************************)
InitParsers == InitParseInt \/ InitParseFloat

NextParsers == NextParseInt \/ NextParseFloat

SpecParsers == InitParsers /\ [][NextParsers]_vars

(***************************************************************************)
(* Properties of the bootstrap.                                            *)
(***************************************************************************)
Assigned(s) == slots[s] \in DOMAIN heap

\* C1: whenever a statement of initGlobalObject is about to run, every
\* runtime slot it reads (the parent of a new object, Array.prototype for
\* the array class, Function.prototype for ThrowTypeError and for the
\* functions defineGlobalFunc creates, the slots a constructor reads) has
\* already been assigned an object by an earlier statement.
C1_NoUnassignedRead ==
  (Running /\ ~(Cur.cond /\ ~hasES6Symbol))
    => \A s \in Cur.reads : Assigned(s)

\* The array class has been built from Array.prototype, ThrowTypeError from
\* Function.prototype, and parseInt has been created.
C1_Witness ==
  /\ Assigned("arrayClass")
  /\ heap[slots["arrayClass"]].parent = slots["arrayPrototype"]
  /\ Assigned("arrayPrototype")
  /\ Assigned("throwTypeErrorAccessor")
  /\ heap[heap[slots["throwTypeErrorAccessor"]].getter].parent
       = slots["functionPrototype"]
  /\ Assigned("parseIntFunction")
  /\ heap[slots["parseIntFunction"]].parent = slots["functionPrototype"]

\* The phase a statement belongs to, from what the statement does.
PhaseOf(st) ==
  CASE st.op = "defineConstant" -> 1
    [] st.op = "declare" /\ st.slot = "objectPrototype" -> 2
    [] st.op = "declare"
         /\ (st.slot = "ErrorPrototype" \/ st.parent = "ErrorPrototype") -> 3
    [] st.op = "declare" /\ st.slot = "functionPrototype" -> 4
    [] st.op \in {"lockLength", "createThrowTypeError", "createAccessor"} -> 4
    [] st.op = "defineGlobalFunc" /\ st.name \in {"parseInt", "parseFloat"}
         -> 5
    [] st.op \in {"declare", "createClass"} -> 6
    [] st.op = "ctor" -> 7
    [] st.op = "populate" -> 8
    [] st.op = "namespace" -> 9
    [] OTHER -> 10

\* C2: the statements run phase by phase in the order constants,
\* Object.prototype, error prototypes, Function.prototype and ThrowTypeError,
\* parseInt/parseFloat, remaining prototypes, constructors, iterator
\* prototypes, namespaces, remaining global functions: the phase never
\* decreases from one statement to the next, no constructor is created
\* while a forward-declared prototype is missing, and no iterator prototype
\* is populated before every constructor has been created.
C2_PhaseOrder ==
  /\ [][(pc' \in DOMAIN Program /\ pc \in DOMAIN Program)
          => PhaseOf(Program[pc]) <= PhaseOf(Program[pc'])]_vars
  /\ [](At("ctor") => \A s \in PrototypeSlots : Assigned(s))
  /\ [](At("populate")
          => \A i \in DOMAIN Program :
               Program[i].op = "ctor"
                 => (i < pc /\ (ctorProto[Program[i].name] # Unassigned
                                  \/ (Program[i].cond /\ ~hasES6Symbol))))
  /\ [](pc = 1 => PhaseOf(Program[pc]) = 1)

\* The bootstrap has returned after running a statement of each phase.
C2_Witness ==
  /\ pc = Returned
  /\ ~aborted
  /\ {PhaseOf(Program[i]) : i \in DOMAIN Program} = 1..10
  /\ \A c \in CtorNames : ctorProto[c] # Unassigned

\* Following parent links from id for at most n steps reaches root.
RECURSIVE ReachesIn(_, _, _)
ReachesIn(id, root, n) ==
  IF id = root THEN TRUE
  ELSE IF n = 0 \/ id \notin DOMAIN heap THEN FALSE
  ELSE ReachesIn(heap[id].parent, root, n - 1)

\* C3: once initGlobalObject has returned, the parent chain of every
\* prototype it created reaches Object.prototype in finitely many steps,
\* Object.prototype is the only prototype with a null parent, and every
\* other prototype has one parent object.
C3_PrototypeTree ==
  pc = Returned =>
    /\ Assigned("objectPrototype")
    /\ heap[slots["objectPrototype"]].parent = NullObj
    /\ \A s \in PrototypeSlots :
         /\ Assigned(s)
         /\ ReachesIn(slots[s], slots["objectPrototype"], Len(heap))
         /\ s # "objectPrototype" =>
              /\ heap[slots[s]].parent \in DOMAIN heap
              /\ heap[slots[s]].parent # slots[s]

\* The bootstrap has returned and a prototype sits two links below
\* Object.prototype.
C3_Witness ==
  /\ pc = Returned
  /\ Assigned("stringIteratorPrototype")
  /\ heap[slots["stringIteratorPrototype"]].parent = slots["iteratorPrototype"]
  /\ heap[slots["iteratorPrototype"]].parent = slots["objectPrototype"]
  /\ heap[slots[ErrorNames[1] \o "Prototype"]].parent
       = slots["ErrorPrototype"]

\* The prototype slot the constructor named c captures.
ProtoSlotOf(c) ==
  LET i == CHOOSE j \in DOMAIN Program :
             Program[j].op = "ctor" /\ Program[j].name = c
  IN Program[i].parent

\* C8: a prototype slot, once assigned, keeps its value through every later
\* statement; it is assigned before the constructor of its built-in is
\* created; and the prototype a constructor captured is the object its slot
\* still holds, in particular when the bootstrap ends.
C8_PrototypeStable ==
  /\ [][\A s \in PrototypeSlots :
          slots[s] # Unassigned => slots'[s] = slots[s]]_vars
  /\ [](\A c \in CtorNames :
          ctorProto[c] # Unassigned
            => (ctorProto[c] = slots[ProtoSlotOf(c)]
                  /\ ctorProto[c] \in DOMAIN heap))
  /\ [](pc = Returned => \A s \in PrototypeSlots : Assigned(s))

\* The bootstrap has returned with the String constructor holding
\* String.prototype.
C8_Witness ==
  /\ pc = Returned
  /\ ctorProto["String"] = slots["stringPrototype"]
  /\ ctorProto["String"] \in DOMAIN heap
  /\ heap[ctorProto["String"]].populated

\* Every slot, constructor and global property of the bootstrap exists.
GraphComplete ==
  /\ \A s \in SlotNames : slots[s] # Unassigned
  /\ \A n \in GlobalNames :
       globalProps[n].present \/ (n = "Symbol" /\ ~hasES6Symbol)
  /\ \A c \in CtorNames :
       ctorProto[c] # Unassigned \/ (c = "Symbol" /\ ~hasES6Symbol)

\* C9: after an allocation failure no statement runs again (no later
\* statement, no retry of the failed one), the bootstrap stays at the failed
\* statement, and initGlobalObject returns only with the complete graph
\* (which is there as long as no later call has touched it).
C9_FailureAborts ==
  /\ [][~aborted]_vars
  /\ [](aborted => pc \in DOMAIN Program)
  /\ [](pc = Returned => ~aborted)
  /\ []((pc = Returned /\ callResult = NoCall) => GraphComplete)

\* An allocation failed in the middle of the constructor phase.
C9_Witness ==
  /\ aborted
  /\ pc \in DOMAIN Program
  /\ Cur.op = "ctor"
  /\ ~GraphComplete


\* The attributes of the global property n.
Attributes(n) ==
  [enumerable |-> globalProps[n].enumerable,
   writable |-> globalProps[n].writable,
   configurable |-> globalProps[n].configurable]

ConstantNames == {"NaN", "Infinity", "undefined"}
LockedNames == ConstantNames \cup {"HermesInternal"}
OpenNames ==
  {"Math", "JSON", "parseInt", "parseFloat", "print", "eval", "isNaN",
   "isFinite", "escape", "unescape", "decodeURI", "decodeURIComponent",
   "encodeURI", "encodeURIComponent", "gc"}

\* C12: when initGlobalObject has returned and nothing has run since, the
\* global properties NaN, Infinity, undefined and HermesInternal are present,
\* non-enumerable, non-writable and non-configurable, and Math, JSON and the
\* thirteen functions of defineGlobalFunc are present, non-enumerable,
\* writable and configurable.
C12_GlobalAttributes ==
  (Bootstrapped /\ callResult = NoCall) =>
    /\ \A n \in LockedNames :
         /\ globalProps[n].present
         /\ Attributes(n) = [enumerable |-> FALSE, writable |-> FALSE,
                             configurable |-> FALSE]
    /\ \A n \in OpenNames :
         /\ globalProps[n].present
         /\ Attributes(n) = [enumerable |-> FALSE, writable |-> TRUE,
                             configurable |-> TRUE]
    /\ globalProps["NaN"].value = NaNValue
    /\ globalProps["Infinity"].value = InfinityValue
    /\ globalProps["undefined"].value = UndefinedValue

\* initGlobalObject has returned with gc, the last global function, and the
\* diagnostics namespace installed.
C12_Witness ==
  /\ Bootstrapped /\ callResult = NoCall
  /\ globalProps["gc"].value \in DOMAIN heap
  /\ heap[globalProps["gc"].value].kind = "NativeFunction"
  /\ globalProps["HermesInternal"].value \in DOMAIN heap
  /\ ~globalProps["HermesInternal"].writable
  /\ globalProps["Math"].writable

\* The constructors in the order the claim gives them.
CtorOrder ==
  <<"Object", "Error">> \o ErrorNames
    \o <<"String", "Function", "Number", "Boolean", "Date", "RegExp",
         "Array", "ArrayBuffer", "DataView", "TypedArrayBase">>
    \o [i \in 1..Len(ArrayNames) |-> ArrayNames[i] \o "Array"]
    \o <<"Set", "Map", "WeakMap", "WeakSet", "Symbol">>

\* The constructor c has been created and installed on the global object.
Created(c) == globalProps[c].present /\ globalProps[c].value \in DOMAIN heap

\* C14: at every moment the constructors created so far are an initial part
\* of CtorOrder, each created after the ones before it (objects are numbered
\* in creation order); Symbol, the last, is created only when hasES6Symbol
\* holds, and then it is; Symbol.prototype is declared before the first
\* constructor in either case; TypedArrayBase precedes every TypedArray.
C14_ConstructorOrder ==
  /\ CtorNames = SeqToSet(CtorOrder)
  /\ \A i, j \in DOMAIN CtorOrder :
       (i < j /\ Created(CtorOrder[j])) =>
         /\ Created(CtorOrder[i])
         /\ globalProps[CtorOrder[i]].value < globalProps[CtorOrder[j]].value
  /\ Created("Symbol") => hasES6Symbol
  /\ Created("Object") => Assigned("symbolPrototype")
  /\ Bootstrapped =>
       \A c \in CtorNames : Created(c) <=> (c = "Symbol" => hasES6Symbol)
  /\ \A i \in DOMAIN ArrayNames :
       Created(ArrayNames[i] \o "Array") =>
         /\ Created("TypedArrayBase")
         /\ Assigned("typedArrayBaseConstructor")
         /\ slots["typedArrayBaseConstructor"]
              < slots[ArrayNames[i] \o "ArrayConstructor"]

\* initGlobalObject has returned without a Symbol constructor, with
\* Symbol.prototype declared and WeakSet the last constructor created.
C14_Witness ==
  /\ Bootstrapped
  /\ ~hasES6Symbol
  /\ ~Created("Symbol")
  /\ Assigned("symbolPrototype")
  /\ Created("WeakSet")
  /\ \A c \in CtorNames \ {"Symbol", "WeakSet"} :
       Created(c) /\ globalProps[c].value < globalProps["WeakSet"].value

\* The two parser functions: global property name and runtime slot.
ParseFunctions ==
  {[name |-> "parseInt", slot |-> "parseIntFunction"],
   [name |-> "parseFloat", slot |-> "parseFloatFunction"]}

\* The prototypes that exist when the parser functions are installed.
EarlyPrototypes ==
  {"objectPrototype", "ErrorPrototype", "functionPrototype"}
    \cup {ErrorNames[i] \o "Prototype" : i \in DOMAIN ErrorNames}

\* C15: the function object of parseInt (parseFloat) is created after
\* Function.prototype, which is its parent, and before every prototype
\* declared later than Function.prototype; from its creation on, the slot
\* parseIntFunction (parseFloatFunction) and the global property parseInt
\* (parseFloat) hold that one object, through every later statement and when
\* initGlobalObject has returned.
C15_ParseFunctionsAliased ==
  /\ [](\A f \in ParseFunctions :
          /\ globalProps[f.name].present <=> Assigned(f.slot)
          /\ Assigned(f.slot) =>
               /\ globalProps[f.name].value = slots[f.slot]
               /\ heap[slots[f.slot]].kind = "NativeFunction"
               /\ Assigned("functionPrototype")
               /\ heap[slots[f.slot]].parent = slots["functionPrototype"]
               /\ slots["functionPrototype"] < slots[f.slot]
               /\ \A p \in PrototypeSlots \ EarlyPrototypes :
                    Assigned(p) => slots[f.slot] < slots[p])
  /\ [][\A f \in ParseFunctions :
          Assigned(f.slot) =>
            /\ slots'[f.slot] = slots[f.slot]
            /\ globalProps'[f.name] = globalProps[f.name]]_vars
  /\ [](Bootstrapped => \A f \in ParseFunctions : Assigned(f.slot))

\* initGlobalObject has returned; parseIntFunction and the global parseInt
\* are one function of two parameters, older than String.prototype.
C15_Witness ==
  /\ Bootstrapped
  /\ Assigned("parseIntFunction")
  /\ globalProps["parseInt"].value = slots["parseIntFunction"]
  /\ heap[slots["parseIntFunction"]].length.value = 2
  /\ globalProps["parseFloat"].value = slots["parseFloatFunction"]
  /\ slots["parseIntFunction"] # slots["parseFloatFunction"]
  /\ slots["parseIntFunction"] < slots["stringPrototype"]

\* The value initGlobalObject gives the constant n.
ConstantValue(n) ==
  CASE n = "NaN" -> NaNValue
    [] n = "Infinity" -> InfinityValue
    [] n = "undefined" -> UndefinedValue

\* C17: from the statement that installs it, each of NaN, Infinity and
\* undefined is a present, non-enumerable, non-writable, non-configurable
\* property with its own value, and no step changes it: not the rest of the
\* bootstrap, and not a later definition (whatever its flags and value),
\* assignment or deletion, each of which is refused or changes nothing.
C17_ConstantsFrozen ==
  /\ [][\A n \in ConstantNames :
          globalProps[n].present => globalProps'[n] = globalProps[n]]_vars
  /\ [](\A n \in ConstantNames :
          globalProps[n].present =>
            /\ globalProps[n].value = ConstantValue(n)
            /\ Attributes(n) = [enumerable |-> FALSE, writable |-> FALSE,
                                configurable |-> FALSE])
  /\ [](Bootstrapped => \A n \in ConstantNames : globalProps[n].present)
  /\ []((callResult.call \in {"putNamed", "deleteNamed"}
           /\ callResult.target \in ConstantNames)
          => callResult.value = "false")

\* A later definition of NaN has been refused and NaN is what it was, while
\* the same calls have replaced the value of Math.
C17_Witness ==
  /\ Bootstrapped
  /\ callResult.call = "defineOwnProperty"
  /\ callResult.target = "NaN"
  /\ callResult.value = "false"
  /\ globalProps["NaN"].value = NaNValue
  /\ ~globalProps["NaN"].configurable
  /\ globalProps["Math"].value = 1

RestrictedMessage == "Restricted in strict mode"

\* C19: the accessor in throwTypeErrorAccessor has one native function as
\* its getter and its setter, created with the message "Restricted in strict
\* mode" as context; every call of it, through either, with any number of
\* arguments, ends with a TypeError carrying that message and with no value
\* returned.
C19_ThrowTypeErrorRaises ==
  /\ Assigned("throwTypeErrorAccessor") =>
       LET a == heap[slots["throwTypeErrorAccessor"]] IN
       /\ a.kind = "PropertyAccessor"
       /\ a.getter = a.setter
       /\ a.getter \in DOMAIN heap
       /\ heap[a.getter].kind = "NativeFunction"
       /\ heap[a.getter].ctx = RestrictedMessage
  /\ callResult.call = "throwTypeError" =>
       /\ callResult.status = "EXCEPTION"
       /\ callResult.error = "TypeError"
       /\ callResult.message = RestrictedMessage
       /\ callResult.value = ""
  /\ \A id \in DOMAIN heap :
       heap[id].ctx # "" =>
         (Assigned("throwTypeErrorAccessor")
            => id = heap[slots["throwTypeErrorAccessor"]].getter)

\* The setter of the accessor has been called and has raised the TypeError.
C19_Witness ==
  /\ Bootstrapped
  /\ callResult.call = "throwTypeError"
  /\ callResult.target = "setter"
  /\ callResult.status = "EXCEPTION"
  /\ callResult.message = RestrictedMessage

\* The parents the claim names, as child slot and parent slot.
ClaimedParents ==
  {[child |-> "ErrorPrototype", parent |-> "objectPrototype"],
   [child |-> "functionPrototype", parent |-> "objectPrototype"],
   [child |-> "arrayIteratorPrototype", parent |-> "iteratorPrototype"],
   [child |-> "stringIteratorPrototype", parent |-> "iteratorPrototype"],
   [child |-> "generatorPrototype", parent |-> "iteratorPrototype"],
   [child |-> "generatorFunctionPrototype", parent |-> "functionPrototype"]}
    \cup {[child |-> ErrorNames[i] \o "Prototype",
           parent |-> "ErrorPrototype"] : i \in DOMAIN ErrorNames}
    \cup {[child |-> ArrayNames[i] \o "ArrayPrototype",
           parent |-> "typedArrayBasePrototype"] : i \in DOMAIN ArrayNames}

\* C20: each of these prototypes, from its declaration on, has as parent
\* the object its parent's slot holds, and that object was created before it
\* (objects are numbered in creation order); when initGlobalObject has
\* returned all of them exist.
C20_DeclaredParents ==
  /\ \A e \in ClaimedParents :
       /\ e.child \in PrototypeSlots
       /\ Assigned(e.child) =>
            /\ Assigned(e.parent)
            /\ heap[slots[e.child]].parent = slots[e.parent]
            /\ slots[e.parent] < slots[e.child]
  /\ Bootstrapped => \A e \in ClaimedParents : Assigned(e.child)

\* initGlobalObject has returned; %GeneratorFunction%.prototype hangs under
\* Function.prototype and the Generator prototype under %IteratorPrototype%.
C20_Witness ==
  /\ Bootstrapped
  /\ heap[slots["generatorFunctionPrototype"]].parent
       = slots["functionPrototype"]
  /\ heap[slots["generatorPrototype"]].parent = slots["iteratorPrototype"]
  /\ heap[slots[ErrorNames[1] \o "Prototype"]].parent
       = slots["ErrorPrototype"]
  /\ slots["iteratorPrototype"] < slots["generatorPrototype"]

\* The object whose length the current lockLength statement locks:
\* Function.prototype through its slot, the ThrowTypeError function through
\* its local handle.
LockTarget ==
  IF "functionPrototype" \in Cur.reads THEN slots["functionPrototype"]
  ELSE handles["throwTypeErrorFunction"]

\* C21: the statement that applies clearConfigurableDPF to the length of
\* Function.prototype or of the ThrowTypeError function finds that property
\* present and configurable, leaves it non-configurable with the value,
\* writable flag and enumerable flag it had (the undefined passed as value is
\* not stored), and changes no other object; the property stays locked.
C21_LockLengthFrame ==
  /\ [][(At("lockLength") /\ pc' = pc + 1) =>
          /\ LockTarget \in DOMAIN heap
          /\ heap[LockTarget].kind = "NativeFunction"
          /\ heap[LockTarget].length.present
          /\ heap[LockTarget].length.configurable
          /\ heap'[LockTarget].length =
               [heap[LockTarget].length EXCEPT !.configurable = FALSE]
          /\ heap'[LockTarget].length.value # UndefinedValue
          /\ heap' = [heap EXCEPT
                        ![LockTarget].length = heap'[LockTarget].length]
         ]_vars
  /\ [][\A id \in DOMAIN heap :
          (heap[id].length.present /\ ~heap[id].length.configurable)
            => heap'[id].length = heap[id].length]_vars
  /\ [](Bootstrapped =>
          /\ ~heap[slots["functionPrototype"]].length.configurable
          /\ ~heap[heap[slots["throwTypeErrorAccessor"]].getter]
                .length.configurable)

\* Both lengths have been locked: each is still 0, non-writable and
\* non-enumerable, and no longer configurable.
C21_Witness ==
  /\ Assigned("throwTypeErrorAccessor")
  /\ LET f == heap[slots["functionPrototype"]]
         t == heap[heap[slots["throwTypeErrorAccessor"]].getter]
         locked == [present |-> TRUE, value |-> 0, enumerable |-> FALSE,
                    writable |-> FALSE, configurable |-> FALSE]
     IN f.length = locked /\ t.length = locked

\* The statement about to run releases the handles of the scope.
Clearing == Running /\ (Cur.op = "defineGlobalFunc" \/ Cur.clears)

\* C22: a statement that uses a local handle finds it holding a live
\* object, never one that clearAllHandles has released; a statement that
\* clears leaves every handle released but the one it allocates itself, and
\* a released handle is never live again unless it is allocated anew; what a
\* statement stores in a runtime slot from a handle, it stores while the
\* handle is live.
C22_NoStaleHandleUse ==
  /\ [](Running => \A h \in Cur.uses :
                     handles[h] # Stale /\ handles[h] \in DOMAIN heap)
  /\ [][(Clearing /\ pc' = pc + 1) =>
          \A h \in Locals :
            \/ handles'[h] \in {NullObj, Stale}
            \/ (h = Cur.local /\ handles'[h] \notin DOMAIN heap
                  /\ handles'[h] \in DOMAIN heap')]_vars
  /\ [][\A h \in Locals :
          handles[h] = Stale =>
            \/ handles'[h] = Stale
            \/ (Running /\ h = Cur.local /\ handles'[h] \notin DOMAIN heap)
         ]_vars
  /\ [][(Running /\ pc' = pc + 1 /\ Cur.local # "" /\ Cur.slot # "") =>
          slots'[Cur.slot] = handles'[Cur.local]]_vars

\* parseFloat has just been defined: the handles of Function.prototype and
\* of the ThrowTypeError function are released, both objects are held by
\* runtime slots, and the handle defineGlobalFunc returned is live and
\* stored in parseFloatFunction.
C22_Witness ==
  /\ Running
  /\ handles["funcRes"] = Stale
  /\ handles["throwTypeErrorFunction"] = Stale
  /\ Assigned("functionPrototype")
  /\ Assigned("throwTypeErrorAccessor")
  /\ heap[slots["throwTypeErrorAccessor"]].getter \in DOMAIN heap
  /\ handles["func"] = slots["parseFloatFunction"]
  /\ handles["func"] \in DOMAIN heap

(***************************************************************************)
(* Properties of parseInt.  The expected result is stated from the text,   *)
(* independently of the scanning operators above.                          *)
(***************************************************************************)
IsBlank(c) == isWhiteSpaceChar(c) \/ isLineTerminatorChar(c)

\* The number of leading blanks of str.
LeadLen(str) ==
  CHOOSE n \in 0..Len(str) :
    /\ \A i \in 1..n : IsBlank(str[i])
    /\ n < Len(str) => ~IsBlank(str[n + 1])

\* str without its leading blanks.
Body(str) == SubSeq(str, LeadLen(str) + 1, Len(str))

HasSign(body) == body # <<>> /\ body[1] \in {Ord["+"], Ord["-"]}
SignOf(body) == IF body # <<>> /\ body[1] = Ord["-"] THEN -1 ELSE 1
Unsigned(body) == IF HasSign(body) THEN Tail(body) ELSE body

HasHexPrefix(t) ==
  Len(t) >= 2 /\ t[1] = Ord["0"] /\ t[2] \in {Ord["x"], Ord["X"]}

\* The characters that write the digit d.
DigitChars(d) ==
  IF d < 10 THEN {Ord["0"] + d}
  ELSE {Ord["a"] + (d - 10), Ord["A"] + (d - 10)}

IsDigitIn(c, r) == \E d \in 0..(r - 1) : c \in DigitChars(d)
ValueOfDigit(c) == CHOOSE d \in 0..35 : c \in DigitChars(d)

\* The length of the longest run of radix-r digits at the start of t.
RunLen(t, r) ==
  CHOOSE n \in 0..Len(t) :
    /\ \A i \in 1..n : IsDigitIn(t[i], r)
    /\ n < Len(t) => ~IsDigitIn(t[n + 1], r)

RECURSIVE Pow(_, _)
Pow(b, k) == IF k = 0 THEN 1 ELSE b * Pow(b, k - 1)

\* Sum of digit(t[i]) * r^(n-i) for i in from..n.
RECURSIVE Weighted(_, _, _, _)
Weighted(t, n, r, from) ==
  IF from > n THEN 0
  ELSE ValueOfDigit(t[from]) * Pow(r, n - from) + Weighted(t, n, r, from + 1)

\* NaN for an empty digit run, otherwise sign times the run's value.
Expected(t, r, sign) ==
  IF RunLen(t, r) = 0 THEN NaN
  ELSE Num(sign, Weighted(t, RunLen(t, r), r, 1))

RadixUnspecified(arg1) == arg1.kind # "number" \/ toInt32(arg1) = 0
RadixInRange(arg1) ==
  RadixUnspecified(arg1) \/ (toInt32(arg1) >= 2 /\ toInt32(arg1) <= 36)
EffectiveRadix(arg1) == IF RadixUnspecified(arg1) THEN 10 ELSE toInt32(arg1)

\* The result of parsing the hexadecimal digits after the prefix of the
\* signed text.
HexAfterPrefix ==
  LET body == Body(pi_str)
      t == Unsigned(body)
  IN /\ pi_result = Expected(SubSeq(t, 3, Len(t)), 16, SignOf(body))
     /\ pi_radix = 16
     /\ pi_begin = Len(pi_str) - Len(t) + 3

\* C4 as stated: with a radix of 10 or no radix, text that begins with
\* 0x or 0X after blanks and sign is parsed as base 16 after the prefix.
C4_AsStated ==
  (/\ pi_pc = "done"
   /\ (pi_arg1.kind # "number" \/ toInt32(pi_arg1) = 10)
   /\ HasHexPrefix(Unsigned(Body(pi_str))))
    => HexAfterPrefix

\* C4 (amended): when the radix is absent, undefined or converts to 0, text
\* that begins with 0x or 0X after blanks and sign has the prefix consumed
\* and the digits after it parsed in base 16.
C4_HexPrefixUnspecifiedRadix ==
  (/\ pi_pc = "done"
   /\ RadixUnspecified(pi_arg1)
   /\ HasHexPrefix(Unsigned(Body(pi_str))))
    => HexAfterPrefix

\* parseInt("0x1f") has returned 31.
C4_Witness ==
  /\ pi_pc = "done"
  /\ pi_arg1 = Absent
  /\ pi_str = Str(<<"0", "x", "1", "f">>)
  /\ pi_result = Num(1, 31)

\* The text and radix the digit scan works on, from the input alone.
ScanText(str, arg1) ==
  LET t == Unsigned(Body(str)) IN
  IF HasHexPrefix(t) /\ (RadixUnspecified(arg1) \/ toInt32(arg1) = 16)
  THEN [t |-> SubSeq(t, 3, Len(t)), r |-> 16]
  ELSE [t |-> t, r |-> EffectiveRadix(arg1)]

\* C5: for a radix in range, the digits consumed are the longest run of
\* digits of the active radix after blanks, sign and prefix; the result is
\* NaN when the run is empty and the sign times the radix-weighted value of
\* the run otherwise, whatever follows the run.
C5_LongestDigitRun ==
  (pi_pc = "done" /\ RadixInRange(pi_arg1)) =>
    LET x == ScanText(pi_str, pi_arg1) IN
    /\ pi_realEnd - pi_begin = RunLen(x.t, x.r)
    /\ pi_result = Expected(x.t, x.r, SignOf(Body(pi_str)))

\* parseInt(" -fg", 16) has returned -15, and parseInt("-") NaN.
C5_Witness ==
  /\ pi_pc = "done"
  /\ pi_arg1 = Number(0, 16)
  /\ pi_str = Str(<<" ", "-", "f", "g">>)
  /\ pi_result = Num(-1, 15)
  /\ Expected(<<>>, 10, -1) = NaN

\* C7: a radix that converts to a nonzero integer outside [2, 36] returns
\* NaN without the text being scanned; an absent or undefined radix, or one
\* that converts to 0, starts the scan in base 10.
C7_RadixRange ==
  /\ (pi_pc \in {"scan", "done"} /\ ~RadixInRange(pi_arg1)) =>
       /\ pi_pc = "done"
       /\ pi_result = NaN
       /\ pi_begin = 1 /\ pi_realEnd = 1
  /\ (pi_pc = "scan" /\ RadixUnspecified(pi_arg1)) =>
       (pi_radix = 10 /\ pi_stripPrefix)
  /\ (pi_pc = "done" /\ RadixUnspecified(pi_arg1)) =>
       (pi_radix = 10 \/ HasHexPrefix(Unsigned(Body(pi_str))))

\* parseInt("1", 37) has returned NaN.
C7_Witness ==
  /\ pi_pc = "done"
  /\ pi_arg1 = Number(0, 37)
  /\ pi_str = Str(<<"1">>)
  /\ pi_result = NaN

\* The position of the first character after the blanks and the sign.
AfterSign(str) == Len(str) - Len(Unsigned(Body(str))) + 1

\* The text after blanks and sign is scanned from its first character as
\* digits of radix r.
ScannedUnstripped(r) ==
  /\ pi_begin = AfterSign(pi_str)
  /\ pi_radix = r
  /\ pi_realEnd - pi_begin = RunLen(Unsigned(Body(pi_str)), r)
  /\ pi_result = Expected(Unsigned(Body(pi_str)), r, SignOf(Body(pi_str)))

\* C11 as stated: with a radix argument that is a number other than 16, text
\* that begins with 0x or 0X after blanks and sign keeps its prefix: the 0
\* and what follows it are scanned as digits of the radix given.
C11_AsStated ==
  (/\ pi_pc = "done"
   /\ pi_arg1.kind = "number"
   /\ pi_arg1 # Number(0, 16)
   /\ pi_result # NaN
   /\ HasHexPrefix(Unsigned(Body(pi_str))))
    => ScannedUnstripped(toInt32(pi_arg1))

\* C11 (amended): with a radix argument that converts to an integer of
\* [2, 36] other than 16, text that begins with 0x or 0X after blanks and
\* sign keeps its prefix: the 0 and what follows it are scanned as digits of
\* that radix.
C11_NoStripOtherRadix ==
  (/\ pi_pc = "done"
   /\ pi_arg1.kind = "number"
   /\ toInt32(pi_arg1) \in (2..36) \ {16}
   /\ HasHexPrefix(Unsigned(Body(pi_str))))
    => ScannedUnstripped(toInt32(pi_arg1))

\* parseInt("0x1", 36) has returned 1189, the value of the three base-36
\* digits 0, x and 1.
C11_Witness ==
  /\ pi_pc = "done"
  /\ pi_arg1 = Number(0, 36)
  /\ pi_str = Str(<<"0", "x", "1">>)
  /\ pi_begin = 1 /\ pi_realEnd = 4
  /\ pi_result = Num(1, 33 * 36 + 1)
\* The result of parseInt for text str and a radix that is the small
\* integer r, stated from the text.
RefResult(str, r) ==
  IF r # 0 /\ (r < 2 \/ r > 36) THEN NaN
  ELSE LET x == ScanText(str, Number(0, r)) IN
       Expected(x.t, x.r, SignOf(Body(str)))

TwoTo32 == Number(Limb, 0)
TwoTo32Plus16 == Number(Limb, 16)

\* C16: every decision on the radix is taken on the second argument
\* converted to a signed 32-bit integer: the result is the one the text has
\* for the converted radix, so that 2^32 + 16 gives what 16 gives, 2^32 what
\* 0 gives, and 65535 - 2^32 NaN as 65535 does.
C16_RadixConverted ==
  (pi_pc = "done" /\ pi_arg1.kind = "number") =>
    /\ pi_result = RefResult(pi_str, toInt32(pi_arg1))
    /\ pi_arg1 = TwoTo32Plus16 =>
         (pi_result = RefResult(pi_str, 16) /\ pi_stripPrefix)
    /\ pi_arg1 = TwoTo32 =>
         (pi_result = RefResult(pi_str, 0) /\ pi_stripPrefix)
    /\ pi_arg1 = Number(-1, Limb - 1) => pi_result = NaN

\* parseInt("0x1f", 2^32 + 16) has returned 31.
C16_Witness ==
  /\ pi_pc = "done"
  /\ pi_arg1 = TwoTo32Plus16
  /\ pi_str = Str(<<"0", "x", "1", "f">>)
  /\ pi_radix = 16 /\ pi_begin = 3
  /\ pi_result = Num(1, 31)

\* The input as blanks and sign, a prefix, and the text after the prefix.
BeforePrefix(str) == SubSeq(str, 1, AfterSign(str) - 1)
AfterPrefix(str) ==
  LET u == Unsigned(Body(str)) IN SubSeq(u, 3, Len(u))

\* The call that has returned had radix 16 and text that is blanks, an
\* optional sign, 0x or 0X, and a text not beginning with 0x or 0X.
PrefixedHexCall ==
  /\ pi_pc = "done"
  /\ pi_arg1.kind = "number" /\ toInt32(pi_arg1) = 16
  /\ HasHexPrefix(Unsigned(Body(pi_str)))
  /\ ~HasHexPrefix(AfterPrefix(pi_str))

\* The result is the one of the same call on the text without the prefix,
\* and on the text with the prefix in either case.
SameWithoutPrefix ==
  LET s == BeforePrefix(pi_str)
      t == AfterPrefix(pi_str)
  IN /\ pi_result = parseInt(pi_str, pi_arg1)
     /\ pi_result = parseInt(s \o t, pi_arg1)
     /\ pi_result = parseInt(s \o Str(<<"0", "x">>) \o t, pi_arg1)
     /\ pi_result = parseInt(s \o Str(<<"0", "X">>) \o t, pi_arg1)

\* C18 as stated: with radix 16, for every optional sign s and every text t
\* not beginning with 0x or 0X, parseInt(s + "0x" + t, 16) and
\* parseInt(s + "0X" + t, 16) equal parseInt(s + t, 16).
C18_AsStated == PrefixedHexCall => SameWithoutPrefix

\* C18 (amended): with radix 16, for every optional sign s and every text t
\* not beginning with 0x or 0X, and not beginning with a blank or a sign
\* when s is empty, parseInt(s + "0x" + t, 16) and parseInt(s + "0X" + t, 16)
\* equal parseInt(s + t, 16).
C18_HexPrefixOptional ==
  (/\ PrefixedHexCall
   /\ \/ HasSign(Body(pi_str))
      \/ AfterPrefix(pi_str) = <<>>
      \/ (~IsBlank(AfterPrefix(pi_str)[1])
            /\ ~HasSign(AfterPrefix(pi_str))))
    => SameWithoutPrefix

\* parseInt("-0Xf", 16) has returned -15, as parseInt("-f", 16) does.
C18_Witness ==
  /\ pi_pc = "done"
  /\ pi_arg1 = Number(0, 16)
  /\ pi_str = Str(<<"-", "0", "X", "f">>)
  /\ pi_result = Num(-1, 15)
  /\ parseInt(Str(<<"-", "f">>), pi_arg1) = Num(-1, 15)


(***************************************************************************)
(* Properties of parseFloat.  The decimal literals are stated as a         *)
(* grammar over the text, independently of g_strtod.                       *)
(***************************************************************************)
AllDigits(t) == \A i \in DOMAIN t : IsDecimalDigit(t[i])

\* digits, digits '.' digits-opt, or '.' digits
IsMantissa(m) ==
  \E k \in 0..Len(m) :
    /\ AllDigits(SubSeq(m, 1, k))
    /\ \/ (k = Len(m) /\ k > 0)
       \/ /\ k < Len(m)
          /\ m[k + 1] = Ord["."]
          /\ AllDigits(SubSeq(m, k + 2, Len(m)))
          /\ Len(m) > 1

\* an optional sign and at least one digit
IsExponent(x) ==
  LET d == IF x # <<>> /\ x[1] \in {Ord["+"], Ord["-"]} THEN Tail(x) ELSE x
  IN d # <<>> /\ AllDigits(d)

\* The position of the exponent marker of u, 0 if it has none.
MarkerAt(u) ==
  IF \E j \in DOMAIN u : u[j] \in {Ord["e"], Ord["E"]}
  THEN CHOOSE j \in DOMAIN u :
         /\ u[j] \in {Ord["e"], Ord["E"]}
         /\ \A i \in 1..(j - 1) : u[i] \notin {Ord["e"], Ord["E"]}
  ELSE 0

\* StrDecimalLiteral without Infinity: sign-opt mantissa exponent-opt.
IsLiteral(t) ==
  LET u == Unsigned(t)
      j == MarkerAt(u)
  IN IF j = 0 THEN IsMantissa(u)
     ELSE IsMantissa(SubSeq(u, 1, j - 1))
            /\ IsExponent(SubSeq(u, j + 1, Len(u)))

\* The length of the longest prefix of t that is a literal, 0 if none is.
LongestLiteral(t) ==
  LET ns == {n \in 1..Len(t) : IsLiteral(SubSeq(t, 1, n))} IN
  IF ns = {} THEN 0 ELSE CHOOSE n \in ns : \A m \in ns : m <= n

\* The digits of t as a number, skipping every other character.
RECURSIVE DigitsOf(_)
DigitsOf(t) ==
  IF t = <<>> THEN 0
  ELSE IF IsDecimalDigit(t[Len(t)])
  THEN DigitsOf(SubSeq(t, 1, Len(t) - 1)) * 10 + (t[Len(t)] - Ord["0"])
  ELSE DigitsOf(SubSeq(t, 1, Len(t) - 1))

\* The value of a literal: mantissa digits scaled by the exponent and by
\* the number of digits after the point.
LiteralValue(lit) ==
  LET u == Unsigned(lit)
      j == MarkerAt(u)
      m == IF j = 0 THEN u ELSE SubSeq(u, 1, j - 1)
      x == IF j = 0 THEN <<>> ELSE SubSeq(u, j + 1, Len(u))
      point == CHOOSE k \in 1..(Len(m) + 1) :
                 (k <= Len(m) /\ m[k] = Ord["."])
                   \/ (k = Len(m) + 1 /\ \A i \in DOMAIN m : m[i] # Ord["."])
      frac == IF point > Len(m) THEN 0 ELSE Len(m) - point
      xs == IF x # <<>> /\ x[1] = Ord["-"] THEN -1 ELSE 1
  IN Decimal(SignOf(lit), DigitsOf(m), xs * DigitsOf(x) - frac)

BeginsWithToken(t) ==
  \E tok \in {InfinityStr, PositiveInfinityStr, NegativeInfinityStr, NaNStr} :
    Len(t) >= Len(tok) /\ SubSeq(t, 1, Len(tok)) = tok

\* C6: for text that does not begin with a special token, the result is
\* the value of the longest prefix of the trimmed text that is a decimal
\* literal, whatever follows it, and NaN when there is no such prefix; it
\* is NaN when no character was copied and when the first conversion
\* consumed nothing.
C6_LongestLiteralPrefix ==
  (pf_pc = "done" /\ ~BeginsWithToken(Body(pf_str))) =>
    LET t == Body(pf_str)
        n == LongestLiteral(t)
    IN /\ pf_result = IF n = 0 THEN NaN ELSE LiteralValue(SubSeq(t, 1, n))
       /\ pf_i = 0 => pf_result = NaN
       /\ pf_endPtr = 0 => pf_result = NaN
       /\ pf_endPtr = n

\* parseFloat("1.5.1") has returned 1.5 and parseFloat("1e") 1.
C6_Witness ==
  /\ pf_pc = "done"
  /\ pf_str = Str(<<"1", ".", "5", ".">>)
  /\ pf_result = Decimal(1, 15, -1)
  /\ pf_endPtr = 3
  /\ g_strtod(Str(<<"1", "e">>)) = [value |-> Decimal(1, 1, 0), consumed |-> 1]

\* C10: when the trimmed text begins with Infinity, +Infinity, -Infinity or
\* NaN, the result is +Infinity, +Infinity, -Infinity or NaN, whatever
\* follows the token, and the copy and conversion steps never run.
C10_SpecialTokens ==
  LET t == Body(pf_str)
      starts(tok) == Len(t) >= Len(tok) /\ SubSeq(t, 1, Len(tok)) = tok
  IN (pf_pc \notin {"toString", "special"} /\ BeginsWithToken(t)) =>
       /\ pf_pc = "done"
       /\ pf_str8 = <<>> /\ pf_i = 0 /\ pf_endPtr = 0
       /\ starts(InfinityStr) => pf_result = Inf(1)
       /\ starts(PositiveInfinityStr) => pf_result = Inf(1)
       /\ starts(NegativeInfinityStr) => pf_result = Inf(-1)
       /\ starts(NaNStr) => pf_result = NaN

\* parseFloat("\n -Infinityx") has returned -Infinity.
C10_Witness ==
  /\ pf_pc = "done"
  /\ pf_str = Str(<<"\n", " ">>) \o NegativeInfinityStr \o Str(<<"x">>)
  /\ pf_result = Inf(-1)
  /\ pf_str8 = <<>>

\* The copy step of lines 204-227 has run in this call.
CopyRan ==
  /\ pf_pc \in {"probe", "reparse", "done"}
  /\ ~BeginsWithToken(Body(pf_str))

\* The first conversion of lines 228-235 has run in this call.
ProbeRan ==
  /\ CopyRan
  /\ \/ pf_pc = "reparse"
     \/ pf_pc = "done" /\ pf_i > 0

\* C23: the working buffer has len + 1 cells, len being the length of the
\* trimmed text; the copy index never exceeds len and the copied cells are
\* the first cells of the buffer; the terminator at the copy index and the
\* terminator at the place where the first conversion stopped are both
\* cells of the buffer and hold NUL, for every input, the empty text and a
\* text of allowed characters only included.
C23_BufferBounds ==
  LET len == Len(Body(pf_str)) IN
    /\ CopyRan =>
         /\ Str16 = Body(pf_str)
         /\ DOMAIN pf_str8 = 1..(len + 1)
         /\ pf_i \in 0..len
         /\ (pf_i + 1) \in DOMAIN pf_str8
         /\ pf_str8[pf_i + 1] = 0
         /\ pf_len = IF pf_i = 0 THEN len ELSE pf_i
         /\ \A k \in 1..pf_i : IsFloatChar(Str16[k])
         /\ pf_i < len => ~IsFloatChar(Str16[pf_i + 1])
    /\ ProbeRan =>
         /\ pf_endPtr \in 0..pf_i
         /\ (pf_endPtr + 1) \in DOMAIN pf_str8
         /\ pf_endPtr > 0 => pf_str8[pf_endPtr + 1] = 0
         /\ \A k \in 1..pf_endPtr : pf_str8[k] = Str16[k]

\* parseFloat of a text of at least three allowed characters that is a
\* literal as a whole has returned: both terminators fell on the last
\* cell of the buffer.
C23_Witness ==
  /\ pf_pc = "done"
  /\ ProbeRan
  /\ Len(Body(pf_str)) >= 3
  /\ pf_i = Len(Body(pf_str))
  /\ pf_endPtr = pf_i
  /\ Len(pf_str8) = pf_i + 1
  /\ pf_str8[pf_i + 1] = 0
  /\ pf_result.t = "num"

(***************************************************************************)
(* Properties of both parsers.                                             *)
(***************************************************************************)
IsNumber(result) == result.t \in {"nan", "inf", "num"}

\* C13: a parser call ends with an exception only when the conversion of
\* one of its arguments raised (toString of the first argument, or toInt32
\* of parseInt's radix); with a string and a numeric, undefined or absent
\* radix no call ends with an exception, and what a call returns is a
\* number, NaN included.
C13_ParsersNeverRaise ==
  /\ pi_pc = "raised" => (arg0Throws \/ pi_arg1 = ThrowingObject)
  /\ pf_pc = "raised" => arg0Throws
  /\ pi_pc = "done" => IsNumber(pi_result)
  /\ pf_pc = "done" => IsNumber(pf_result)

\* parseFloat("e") has returned NaN: the copy loop takes the e and g_strtod
\* finds no number in it.
C13_Witness ==
  /\ ~arg0Throws
  /\ pf_pc = "done"
  /\ pf_str = Str(<<"e">>)
  /\ pf_i = 1 /\ pf_endPtr = 0
  /\ pf_result = NaN

=============================================================================
